---- MODULE Spec2Model ----
(***************************************************************************)
(* Resolution and nutrition-composition core of the calorie-estimation     *)
(* chatbot: the dish matcher (DishesHandler.find_dish and the              *)
(* database-backed DishesRepository.search_with_country_priority), the     *)
(* ingredient resolver (USDAHandler.search_ingredient and                  *)
(* IngredientManager.search_and_calculate) and the modification engine     *)
(* (RecipeModifier).                                                       *)
(*                                                                         *)
(* A Python str is a sequence of one-character strings; a character        *)
(* outside ASCII is written "uXXXX" (its code point) and is one character. *)
(***************************************************************************)
EXTENDS Integers, Sequences, FiniteSets, TLC

\* ------------------------------------------------------------------------
\* Python str primitives
\* ------------------------------------------------------------------------

UpperChars == <<"A","B","C","D","E","F","G","H","I","J","K","L","M","N","O","P","Q","R","S","T","U","V","W","X","Y","Z">>

LowerChars == <<"a","b","c","d","e","f","g","h","i","j","k","l","m","n","o","p","q","r","s","t","u","v","w","x","y","z">>

\* The characters of the model in code-point order (the order sorted() uses).
CodePoints == <<" ","+",",","-",".","0","1","2","3","4","5","6","7","8","9","A","B","C","D","E","F","G","H","I","J","K","L","M","N","O","P","Q","R","S","T","U","V","W","X","Y","Z","a","b","c","d","e","f","g","h","i","j","k","l","m","n","o","p","q","r","s","t","u","v","w","x","y","z","u0623","u0627","u0628","u0629","u062a","u062c","u062d","u062e","u062f","u0631","u0632","u0633","u0634","u0635","u0637","u063a","u0641","u0642","u0643","u0644","u0645","u0646","u0648","u064a">>

ord(c) == CHOOSE i \in 1..Len(CodePoints) : CodePoints[i] = c

lowerChar(c) ==
    IF \E i \in 1..Len(UpperChars) : UpperChars[i] = c
    THEN LowerChars[CHOOSE i \in 1..Len(UpperChars) : UpperChars[i] = c]
    ELSE c

lower(s) == [i \in 1..Len(s) |-> lowerChar(s[i])]

RECURSIVE lstrip(_)
lstrip(s) == IF s # <<>> /\ Head(s) = " " THEN lstrip(Tail(s)) ELSE s

RECURSIVE rstrip(_)
rstrip(s) ==
    IF s # <<>> /\ s[Len(s)] = " " THEN rstrip(SubSeq(s, 1, Len(s) - 1)) ELSE s

strip(s) == rstrip(lstrip(s))

RECURSIVE splitAux(_, _, _)
splitAux(s, cur, acc) ==
    IF s = <<>>
    THEN IF cur = <<>> THEN acc ELSE Append(acc, cur)
    ELSE IF Head(s) = " "
         THEN splitAux(Tail(s), <<>>, IF cur = <<>> THEN acc ELSE Append(acc, cur))
         ELSE splitAux(Tail(s), Append(cur, Head(s)), acc)

\* str.split(): on runs of whitespace, no empty words.
split(s) == splitAux(s, <<>>, <<>>)

RECURSIVE splitSepAux(_, _, _, _)
splitSepAux(s, sep, cur, acc) ==
    IF s = <<>>
    THEN Append(acc, cur)
    ELSE IF Head(s) = sep
         THEN splitSepAux(Tail(s), sep, <<>>, Append(acc, cur))
         ELSE splitSepAux(Tail(s), sep, Append(cur, Head(s)), acc)

\* str.split(sep) for a one-character separator: empty parts are kept.
splitSep(s, sep) == splitSepAux(s, sep, <<>>, <<>>)

startswith(s, p) == Len(p) <= Len(s) /\ SubSeq(s, 1, Len(p)) = p

\* str.find(sub): the 0-based index of the first occurrence, -1 when absent.
find(s, sub) ==
    LET hits == {i \in 0..(Len(s) - Len(sub)) : SubSeq(s, i + 1, i + Len(sub)) = sub}
    IN  IF hits = {} THEN -1 ELSE CHOOSE i \in hits : \A j \in hits : i <= j

\* The Python expression  sub in s.
contains(s, sub) == find(s, sub) # -1

replaceChar(s, a, b) == [i \in 1..Len(s) |-> IF s[i] = a THEN b ELSE s[i]]

RECURSIVE join(_, _)
join(words, sep) ==
    IF words = <<>> THEN <<>>
    ELSE IF Len(words) = 1 THEN words[1]
    ELSE words[1] \o sep \o join(Tail(words), sep)

Range(f) == {f[i] : i \in DOMAIN f}

\* Lexicographic str comparison by code point: s < t.
RECURSIVE strLess(_, _)
strLess(s, t) ==
    IF t = <<>> THEN FALSE
    ELSE IF s = <<>> THEN TRUE
    ELSE IF Head(s) = Head(t) THEN strLess(Tail(s), Tail(t))
    ELSE ord(Head(s)) < ord(Head(t))

\* sorted(S) for a set of str.
RECURSIVE sorted(_)
sorted(S) ==
    IF S = {} THEN <<>>
    ELSE LET m == CHOOSE x \in S : \A y \in S \ {x} : strLess(x, y)
         IN  <<m>> \o sorted(S \ {m})

Max2(a, b) == IF a >= b THEN a ELSE b

\* ------------------------------------------------------------------------
\* rapidfuzz scorers, as called with no processor and no score cutoff.
\* A score is the exact rational 100 * num / den, kept as [num, den].
\* ------------------------------------------------------------------------

Frac(n, d) == [num |-> n, den |-> d]

FracGE(a, b) == a.num * b.den >= b.num * a.den

FracGT(a, b) == a.num * b.den > b.num * a.den

FracMax(a, b) == IF FracGE(a, b) THEN a ELSE b

\* One row of the LCS table: the row of the prefix extended by character c,
\* from the row prev of the prefix. Each value is computed before the next.
RECURSIVE lcsRow(_, _, _, _, _)
lcsRow(prev, c, t, j, acc) ==
    IF j > Len(t) THEN acc
    ELSE LET v == IF t[j] = c THEN prev[j] + 1 ELSE Max2(prev[j + 1], acc[j])
             next == Append(acc, v)
         IN  IF Len(next) = j + 1 THEN lcsRow(prev, c, t, j + 1, next) ELSE next

RECURSIVE lcsRows(_, _, _)
lcsRows(s, t, prev) ==
    IF s = <<>> THEN prev[Len(prev)]
    ELSE LET row == lcsRow(prev, Head(s), t, 1, <<0>>)
         IN  IF Len(row) = Len(prev) THEN lcsRows(Tail(s), t, row) ELSE 0

\* Length of the longest common subsequence.
lcs(s, t) == lcsRows(s, t, [j \in 1..(Len(t) + 1) |-> 0])

\* Indel distance: insertions and deletions only.
indel_distance(s, t) == Len(s) + Len(t) - 2 * lcs(s, t)

\* 1 - dist / lensum as a fraction (1 when lensum is 0).
norm_distance(dist, lensum) ==
    IF lensum > 0 THEN Frac(lensum - dist, lensum) ELSE Frac(1, 1)

\* fuzz.ratio
ratio(s, t) == norm_distance(indel_distance(s, t), Len(s) + Len(t))

\* fuzz.token_sort_ratio
token_sort_ratio(s, t) ==
    IF s = <<>> \/ t = <<>> THEN Frac(0, 1)
    ELSE ratio(join(sorted(Range(split(s))), <<" ">>),
               join(sorted(Range(split(t))), <<" ">>))

\* fuzz.token_set_ratio
token_set_ratio(s, t) ==
    LET tokens_a == Range(split(s))
        tokens_b == Range(split(t))
        intersect == tokens_a \cap tokens_b
        diff_ab == join(sorted(tokens_a \ tokens_b), <<" ">>)
        diff_ba == join(sorted(tokens_b \ tokens_a), <<" ">>)
        ab_len == Len(diff_ab)
        ba_len == Len(diff_ba)
        sect_len == Len(join(sorted(intersect), <<" ">>))
        gap == IF sect_len # 0 THEN 1 ELSE 0
        sect_ab_len == sect_len + gap + ab_len
        sect_ba_len == sect_len + gap + ba_len
        result == norm_distance(indel_distance(diff_ab, diff_ba),
                                sect_ab_len + sect_ba_len)
        sect_ab_ratio == norm_distance(gap + ab_len, sect_len + sect_ab_len)
        sect_ba_ratio == norm_distance(gap + ba_len, sect_len + sect_ba_len)
    IN  IF tokens_a = {} \/ tokens_b = {} THEN Frac(0, 1)
        ELSE IF intersect # {} /\ (tokens_a \ tokens_b = {} \/ tokens_b \ tokens_a = {})
             THEN Frac(1, 1)
        ELSE IF sect_len = 0 THEN result
        ELSE FracMax(result, FracMax(sect_ab_ratio, sect_ba_ratio))

\* process.extractOne over the scores the scorer gives the choices, in
\* order: the position and the score of the first choice with the best
\* score (position 0 when there is no choice).
RECURSIVE extractOneAux(_, _, _, _)
extractOneAux(scores, i, best, bestScore) ==
    IF i > Len(scores) THEN [index |-> best, score |-> bestScore]
    ELSE IF best = 0 \/ FracGT(scores[i], bestScore)
         THEN extractOneAux(scores, i + 1, i, scores[i])
    ELSE extractOneAux(scores, i + 1, best, bestScore)

extractOne(scores) == extractOneAux(scores, 1, 0, Frac(0, 1))

\* ------------------------------------------------------------------------
\* DishesHandler (data/dishes_handler.py)
\* ------------------------------------------------------------------------

\* The synonym groups, in the dict's insertion order.
SYNONYMS == <<
    <<<<"w","r","a","p">>, <<"s","a","n","d","w","i","c","h">>, <<"p","i","t","a">>, <<"b","r","e","a","d">>>>,
    <<<<"s","a","n","d","w","i","c","h">>, <<"w","r","a","p">>, <<"p","i","t","a">>, <<"b","r","e","a","d">>>>,
    <<<<"p","l","a","t","e">>, <<"d","i","s","h">>, <<"p","l","a","t","t","e","r">>, <<"b","o","w","l">>>>,
    <<<<"b","o","w","l">>, <<"p","l","a","t","e">>, <<"d","i","s","h">>>>,
    <<<<"g","r","i","l","l","e","d">>, <<"m","e","s","h","w","i">>, <<"m","a","s","h","w","i">>, <<"b","b","q">>, <<"b","a","r","b","e","c","u","e">>>>,
    <<<<"f","r","i","e","d">>, <<"m","a","2","l","i">>, <<"m","a","q","l","i">>, <<"c","r","i","s","p","y">>>>,
    <<<<"b","a","k","e","d">>, <<"r","o","a","s","t","e","d">>, <<"o","v","e","n">>>>,
    <<<<"b","o","i","l","e","d">>, <<"m","a","s","l","o","o","2">>, <<"c","o","o","k","e","d">>>>,
    <<<<"s","m","a","l","l">>, <<"m","i","n","i">>, <<"s","g","h","i","r">>, <<"s","g","h","i","r","e">>, <<"s","a","g","h","i","r">>>>,
    <<<<"m","e","d","i","u","m">>, <<"r","e","g","u","l","a","r">>, <<"n","o","r","m","a","l">>, <<"w","a","s","a","t">>>>,
    <<<<"l","a","r","g","e">>, <<"b","i","g">>, <<"k","b","i","r">>, <<"k","b","i","r","e">>, <<"k","a","b","i","r">>>>,
    <<<<"c","h","i","c","k","e","n">>, <<"d","j","e","j">>, <<"d","j","e","i","j">>, <<"d","j","a","j">>, <<"d","a","j","a","j">>, <<"u0641","u0631","u0627","u062e">>, <<"u062f","u062c","u0627","u062c">>>>,
    <<<<"b","e","e","f">>, <<"l","a","h","m","e">>, <<"l","a","h","m">>, <<"u0644","u062d","u0645">>, <<"u0644","u062d","u0645","u0629">>>>,
    <<<<"l","a","m","b">>, <<"k","h","a","r","o","u","f">>, <<"u063a","u0646","u0645">>, <<"u062e","u0631","u0648","u0641">>>>,
    <<<<"f","r","i","e","s">>, <<"b","a","t","a","t","a">>, <<"p","o","t","a","t","o">>, <<"p","o","t","a","t","o","e","s">>, <<"c","h","i","p","s">>, <<"u0628","u0637","u0627","u0637","u0627">>>>,
    <<<<"r","i","c","e">>, <<"r","o","z">>, <<"r","i","z">>, <<"u0631","u0632">>, <<"u0623","u0631","u0632">>>>,
    <<<<"b","r","e","a","d">>, <<"k","h","o","b","z">>, <<"k","h","u","b","z">>, <<"p","i","t","a">>, <<"u062e","u0628","u0632">>>>,
    <<<<"s","a","l","a","d">>, <<"s","a","l","a","t","a">>, <<"u0633","u0644","u0637","u0629">>>> >>

\* The spelling-variation table as <<variant, canonical form>> pairs.
SPELLING_VARIATIONS == <<
    <<<<"f","a","h","i","t","a">>, <<"f","a","j","i","t","a">>>>, <<<<"f","a","j","i","t","a">>, <<"f","a","j","i","t","a">>>>,
    <<<<"f","a","h","i","t","a","s">>, <<"f","a","j","i","t","a">>>>, <<<<"f","a","j","i","t","a","s">>, <<"f","a","j","i","t","a">>>>,
    <<<<"h","o","m","m","o","s">>, <<"h","u","m","m","u","s">>>>, <<<<"h","u","m","m","o","s">>, <<"h","u","m","m","u","s">>>>, <<<<"h","u","m","u","s">>, <<"h","u","m","m","u","s">>>>,
    <<<<"7","u","m","m","u","s">>, <<"h","u","m","m","u","s">>>>, <<<<"7","o","m","m","o","s">>, <<"h","u","m","m","u","s">>>>, <<<<"u062d","u0645","u0635">>, <<"h","u","m","m","u","s">>>>,
    <<<<"t","a","b","o","u","l","e","h">>, <<"t","a","b","b","o","u","l","e","h">>>>, <<<<"t","a","b","o","u","l","e">>, <<"t","a","b","b","o","u","l","e","h">>>>,
    <<<<"t","a","b","2","o","u","l","e">>, <<"t","a","b","b","o","u","l","e","h">>>>, <<<<"t","a","b","b","o","u","l","i">>, <<"t","a","b","b","o","u","l","e","h">>>>,
    <<<<"u062a","u0628","u0648","u0644","u0629">>, <<"t","a","b","b","o","u","l","e","h">>>>,
    <<<<"f","l","a","f","e","l">>, <<"f","a","l","a","f","e","l">>>>, <<<<"f","e","l","a","f","e","l">>, <<"f","a","l","a","f","e","l">>>>, <<<<"u0641","u0644","u0627","u0641","u0644">>, <<"f","a","l","a","f","e","l">>>>,
    <<<<"s","h","a","w","r","m","a">>, <<"s","h","a","w","a","r","m","a">>>>, <<<<"s","h","a","w","e","r","m","a">>, <<"s","h","a","w","a","r","m","a">>>>,
    <<<<"s","h","w","a","r","m","a">>, <<"s","h","a","w","a","r","m","a">>>>, <<<<"u0634","u0627","u0648","u0631","u0645","u0627">>, <<"s","h","a","w","a","r","m","a">>>>,
    <<<<"k","i","b","b","e">>, <<"k","i","b","b","e","h">>>>, <<<<"k","e","b","b","e","h">>, <<"k","i","b","b","e","h">>>>, <<<<"k","u","b","b","e","h">>, <<"k","i","b","b","e","h">>>>,
    <<<<"k","u","b","b","a">>, <<"k","i","b","b","e","h">>>>, <<<<"u0643","u0628","u0629">>, <<"k","i","b","b","e","h">>>>,
    <<<<"k","n","a","f","e","h">>, <<"k","u","n","a","f","a">>>>, <<<<"k","n","e","f","e">>, <<"k","u","n","a","f","a">>>>, <<<<"k","o","n","a","f","a">>, <<"k","u","n","a","f","a">>>>,
    <<<<"k","a","n","a","f","e","h">>, <<"k","u","n","a","f","a">>>>, <<<<"u0643","u0646","u0627","u0641","u0629">>, <<"k","u","n","a","f","a">>>>,
    <<<<"f","a","t","t","u","s","h">>, <<"f","a","t","t","o","u","s","h">>>>, <<<<"f","a","t","o","u","s","h">>, <<"f","a","t","t","o","u","s","h">>>>,
    <<<<"f","a","t","t","o","u","c","h">>, <<"f","a","t","t","o","u","s","h">>>>, <<<<"u0641","u062a","u0648","u0634">>, <<"f","a","t","t","o","u","s","h">>>>,
    <<<<"m","a","n","a","2","i","s","h">>, <<"m","a","n","a","k","i","s","h">>>>, <<<<"m","a","n","a","e","e","s","h">>, <<"m","a","n","a","k","i","s","h">>>>,
    <<<<"m","a","n","2","o","u","s","h","e","h">>, <<"m","a","n","a","k","i","s","h">>>>, <<<<"m","a","n","k","o","u","s","h","e">>, <<"m","a","n","a","k","i","s","h">>>>,
    <<<<"u0645","u0646","u0627","u0642","u064a","u0634">>, <<"m","a","n","a","k","i","s","h">>>>,
    <<<<"l","a","b","n","e">>, <<"l","a","b","n","e","h">>>>, <<<<"l","a","b","a","n","e","h">>, <<"l","a","b","n","e","h">>>>, <<<<"l","a","b","n","a">>, <<"l","a","b","n","e","h">>>>,
    <<<<"u0644","u0628","u0646","u0629">>, <<"l","a","b","n","e","h">>>>,
    <<<<"m","j","a","d","d","a","r","a">>, <<"m","u","j","a","d","a","r","a">>>>, <<<<"m","u","d","a","r","d","a","r","a">>, <<"m","u","j","a","d","a","r","a">>>>,
    <<<<"m","e","j","a","d","r","a">>, <<"m","u","j","a","d","a","r","a">>>>, <<<<"u0645","u062c","u062f","u0631","u0629">>, <<"m","u","j","a","d","a","r","a">>>>,
    <<<<"k","o","s","h","a","r","y">>, <<"k","o","s","h","a","r","i">>>>, <<<<"k","u","s","h","a","r","i">>, <<"k","o","s","h","a","r","i">>>>, <<<<"k","o","s","h","r","i">>, <<"k","o","s","h","a","r","i">>>>,
    <<<<"u0643","u0634","u0631","u064a">>, <<"k","o","s","h","a","r","i">>>>,
    <<<<"k","a","b","s","e","h">>, <<"k","a","b","s","a">>>>, <<<<"m","a","c","h","b","o","o","s">>, <<"k","a","b","s","a">>>>, <<<<"m","a","c","h","b","u","s">>, <<"k","a","b","s","a">>>>,
    <<<<"u0643","u0628","u0633","u0629">>, <<"k","a","b","s","a">>>>,
    <<<<"k","o","u","s","a">>, <<"k","o","u","s","a">>>>, <<<<"k","u","s","a">>, <<"k","o","u","s","a">>>>, <<<<"k","o","u","s","s","a">>, <<"k","o","u","s","a">>>>,
    <<<<"u0643","u0648","u0633","u0627">>, <<"k","o","u","s","a">>>>,
    <<<<"f","o","u","l">>, <<"f","u","l">>>>, <<<<"f","o","o","l">>, <<"f","u","l">>>>, <<<<"u0641","u0648","u0644">>, <<"f","u","l">>>>,
    <<<<"b","a","b","a","g","a","n","o","u","s","h">>, <<"b","a","b","a"," ","g","h","a","n","o","u","s","h">>>>, <<<<"b","a","b","a"," ","g","a","n","o","u","s","h">>, <<"b","a","b","a"," ","g","h","a","n","o","u","s","h">>>>,
    <<<<"u0645","u062a","u0628","u0644">>, <<"b","a","b","a"," ","g","h","a","n","o","u","s","h">>>> >>

STOP_WORDS == {
    <<"w","i","t","h">>, <<"a","n","d">>, <<"t","h","e">>, <<"a">>, <<"a","n">>, <<"o","f">>, <<"i","n">>, <<"o","n">>, <<"f","o","r">>, <<"t","o">>,
    <<"h","o","w">>, <<"m","a","n","y">>, <<"m","u","c","h">>, <<"c","a","l","o","r","i","e","s">>, <<"c","a","l","o","r","i","e">>, <<"c","a","l">>, <<"k","c","a","l">>,
    <<"p","l","e","a","s","e">>, <<"t","h","a","n","k","s">>, <<"t","h","a","n","k">>, <<"y","o","u">>,
    <<"u0627","u0644">>, <<"u0648">>, <<"u0641","u064a">>, <<"u0645","u0646">>,
    <<"e","l">>, <<"a","l">>, <<"w">>, <<"b">>, <<"b","i">>, <<"b","l">>, <<"f","i">> }

normalize_spelling(word) ==
    LET word_lower == strip(lower(word))
        hits == {i \in 1..Len(SPELLING_VARIATIONS) : SPELLING_VARIATIONS[i][1] = word_lower}
    IN  IF hits = {} THEN word_lower
        ELSE SPELLING_VARIATIONS[CHOOSE i \in hits : TRUE][2]

\* The synonyms of the first group that lists the word; the word alone otherwise.
get_synonyms(word) ==
    LET word_lower == strip(lower(word))
        hits == {i \in 1..Len(SYNONYMS) : word_lower \in Range(SYNONYMS[i])}
    IN  IF hits = {} THEN {word_lower}
        ELSE Range(SYNONYMS[CHOOSE i \in hits : \A j \in hits : i <= j])

words_are_synonyms(word1, word2) ==
    LET w1 == strip(lower(word1))
        w2 == strip(lower(word2))
    IN  w1 = w2 \/ get_synonyms(w1) \cap get_synonyms(w2) # {}

RECURSIVE key_words_of(_)
key_words_of(words) ==
    IF words = <<>> THEN <<>>
    ELSE LET word == strip(Head(words))
         IN  (IF word # <<>> /\ word \notin STOP_WORDS /\ Len(word) > 1
              THEN <<normalize_spelling(word)>> ELSE <<>>)
             \o key_words_of(Tail(words))

extract_key_words(text) ==
    key_words_of(split(replaceChar(replaceChar(replaceChar(lower(text),
                       ",", " "), "-", " "), "+", " ")))

\* The score 0.6 * query coverage + 0.4 * dish coverage as an exact fraction.
calculate_match_score(query_words, dish_words) ==
    IF query_words = <<>> \/ dish_words = <<>> THEN Frac(0, 1)
    ELSE LET matched_query == Cardinality({i \in DOMAIN query_words :
                 \E j \in DOMAIN dish_words :
                     words_are_synonyms(query_words[i], dish_words[j])})
             matched_dish == Cardinality({j \in DOMAIN dish_words :
                 \E i \in DOMAIN query_words :
                     words_are_synonyms(query_words[i], dish_words[j])})
         IN  Frac(6 * matched_query * Len(dish_words) + 4 * matched_dish * Len(query_words),
                  10 * Len(query_words) * Len(dish_words))

get_dish_name(dish) == strip(dish.name)

get_dish_country(dish) == strip(dish.country)

\* What find_dish returns: the position of the dish in self.dishes (0 for
\* None) and the strategy that accepted it (the branch that returned).
Found(i, step) == [dish |-> i, step |-> step]

NoMatch == Found(0, "none")

\* The candidates of find_dish: the dishes of the country, or every dish
\* when no country is given or the country has no dish.
dish_candidates(dishes, country) ==
    LET all == [i \in 1..Len(dishes) |-> i]
        of_country(i) == lower(get_dish_country(dishes[i])) = lower(country)
        filtered == IF country # <<>> THEN SelectSeq(all, of_country) ELSE all
    IN  IF filtered = <<>> THEN all ELSE filtered

\* _semantic_search: the candidate with the highest cosine similarity (the
\* first of them on a tie: argmax), if that reaches the threshold. sim[i] is
\* the similarity, in hundredths, the embedding model gives dish i.
semantic_search(dishes, candidates, sim, threshold) ==
    LET named == SelectSeq(candidates, LAMBDA i : get_dish_name(dishes[i]) # <<>>)
        tops == {k \in DOMAIN named : \A m \in DOMAIN named : sim[named[k]] >= sim[named[m]]}
    IN  IF named = <<>> THEN 0
        ELSE LET best_idx == CHOOSE k \in tops : \A m \in tops : k <= m
             IN  IF sim[named[best_idx]] >= threshold THEN named[best_idx] ELSE 0

\* The first candidate with the highest keyword score (the stable
\* descending sort's first element).
best_keyword_match(matches, score) ==
    CHOOSE k \in DOMAIN matches :
        /\ \A m \in DOMAIN matches : FracGE(score[matches[k]], score[matches[m]])
        /\ \A m \in DOMAIN matches :
              FracGE(score[matches[m]], score[matches[k]]) => k <= m

\* Scores exactly 0.1 apart that the subtraction in double arithmetic
\* separates: 0.8 - 0.1 is the double 0.7000000000000001, above the score
\* 0.7, and 0.75 - 0.1 is 0.65, above the score 0.6499999999999999 (the
\* doubles of the scores of names of at most four key words; the other
\* scores 0.1 apart compare as the rationals do).
rounds_apart(s, best) ==
    \/ (FracGE(best, Frac(4, 5)) /\ FracGE(Frac(4, 5), best)
        /\ FracGE(s, Frac(7, 10)) /\ FracGE(Frac(7, 10), s))
    \/ (FracGE(best, Frac(3, 4)) /\ FracGE(Frac(3, 4), best)
        /\ FracGE(s, Frac(13, 20)) /\ FracGE(Frac(13, 20), s))

\* m[2] >= best[2] - 0.1, as the doubles compare.
is_close_match(s, best) ==
    /\ s.num * 10 * best.den >= (10 * best.num - best.den) * s.den
    /\ ~rounds_apart(s, best)

\* The keyword score of every choice (lines 346-347).
keyword_scores(dishes, dish_choices, query_words) ==
    [i \in Range(dish_choices) |->
        calculate_match_score(query_words,
            extract_key_words(strip(lower(get_dish_name(dishes[i])))))]

\* The acceptance rule of strategy 2 on the scored choices.
keyword_accept(keyword_matches, score) ==
    IF keyword_matches = <<>> THEN NoMatch
    ELSE LET best == keyword_matches[best_keyword_match(keyword_matches, score)]
             close_matches == SelectSeq(keyword_matches,
                                 LAMBDA i : is_close_match(score[i], score[best]))
         IN  IF FracGE(score[best], Frac(9, 10)) THEN Found(best, "keyword_high")
             ELSE IF FracGE(score[best], Frac(75, 100)) /\ Len(close_matches) = 1
                  THEN Found(best, "keyword_unique")
             ELSE NoMatch

\* The choices with a positive score, in the order of the choices.
positive_matches(dish_choices, score) ==
    SelectSeq(dish_choices, LAMBDA i : score[i].num > 0)

\* Strategy 2 of find_dish: the accepted dish and the branch, or NoMatch.
keyword_step(dishes, dish_choices, query_words) ==
    LET score == keyword_scores(dishes, dish_choices, query_words)
    IN  keyword_accept(positive_matches(dish_choices, score), score)

\* The acceptance rule of strategy 3 on the result of extractOne: the first
\* choice whose name is the matched name.
fuzzy_accept(dish_choices, names, result, fuzzy_threshold) ==
    IF result.index = 0 THEN NoMatch
    ELSE IF FracGE(result.score, Frac(fuzzy_threshold, 100))
         THEN Found(dish_choices[CHOOSE j \in DOMAIN names :
                        /\ names[j] = names[result.index]
                        /\ \A m \in 1..(j - 1) : names[m] # names[result.index]],
                    "fuzzy")
    ELSE NoMatch

\* The names the fuzzy matcher chooses from.
choice_names(dishes, dish_choices) ==
    [k \in DOMAIN dish_choices |-> strip(lower(get_dish_name(dishes[dish_choices[k]])))]

\* The token_set_ratio of the query against each choice.
choice_scores(dish_name_lower, names) ==
    [k \in DOMAIN names |-> token_set_ratio(dish_name_lower, names[k])]

\* Strategy 3 of find_dish.
fuzzy_step(dishes, dish_choices, dish_name_lower, fuzzy_threshold) ==
    fuzzy_accept(dish_choices, choice_names(dishes, dish_choices),
                 extractOne(choice_scores(dish_name_lower,
                                          choice_names(dishes, dish_choices))),
                 fuzzy_threshold)

\* The keyword verification of the semantic match.
semantic_verify(dishes, semantic_dish, query_words) ==
    IF semantic_dish = 0 THEN NoMatch
    ELSE IF FracGE(calculate_match_score(query_words,
                       extract_key_words(lower(get_dish_name(dishes[semantic_dish])))),
                   Frac(1, 2))
         THEN Found(semantic_dish, "semantic")
    ELSE NoMatch

\* Strategy 4 of find_dish: the semantic match, verified by the keyword score.
semantic_step(dishes, candidates, query_words, sim, semantic_threshold) ==
    semantic_verify(dishes, semantic_search(dishes, candidates, sim, semantic_threshold),
                    query_words)

\* Strategy 1 of find_dish: the first choice whose name is the query.
exact_step(dishes, dish_choices, dish_name_lower) ==
    LET exact == {k \in DOMAIN dish_choices :
                     strip(lower(get_dish_name(dishes[dish_choices[k]]))) = dish_name_lower}
    IN  IF exact = {} THEN NoMatch
        ELSE Found(dish_choices[CHOOSE k \in exact : \A m \in exact : k <= m], "exact")

\* The result of the first strategy that returned a dish.
RECURSIVE first_match(_)
first_match(steps) ==
    IF steps = <<>> THEN NoMatch
    ELSE IF Head(steps).dish # 0 THEN Head(steps)
    ELSE first_match(Tail(steps))

\* The choice list of find_dish: the candidates that have a name.
named_choices(dishes, candidates) ==
    SelectSeq(candidates, LAMBDA i : get_dish_name(dishes[i]) # <<>>)

\* find_among with the keyword strategy tried before the exact one.
find_among_keyword_first(dishes, candidates, dish_choices, dish_name_lower, query_words, fuzzy_threshold, semantic_threshold, sim) ==
    first_match(<<
        keyword_step(dishes, dish_choices, query_words),
        exact_step(dishes, dish_choices, dish_name_lower),
        fuzzy_step(dishes, dish_choices, dish_name_lower, fuzzy_threshold),
        semantic_step(dishes, candidates, query_words, sim, semantic_threshold) >>)

\* The strategies of find_dish on the choice list.
find_among(dishes, candidates, dish_choices, dish_name_lower, query_words, fuzzy_threshold, semantic_threshold, sim) ==
    first_match(<<
        exact_step(dishes, dish_choices, dish_name_lower),
        keyword_step(dishes, dish_choices, query_words),
        fuzzy_step(dishes, dish_choices, dish_name_lower, fuzzy_threshold),
        semantic_step(dishes, candidates, query_words, sim, semantic_threshold) >>)

find_dish(dishes, dish_name, country, fuzzy_threshold, semantic_threshold, sim) ==
    IF dishes = <<>> THEN NoMatch
    ELSE find_among(dishes, dish_candidates(dishes, country),
                    named_choices(dishes, dish_candidates(dishes, country)),
                    strip(lower(dish_name)), extract_key_words(strip(lower(dish_name))),
                    fuzzy_threshold, semantic_threshold, sim)

\* ------------------------------------------------------------------------
\* DishesRepository (repositories/dishes.py). Rows that the ORDER BY leaves
\* tied come in the order of the table.
\* ------------------------------------------------------------------------

PARTIAL_STOP_WORDS == {<<"t","h","e">>, <<"a">>, <<"a","n">>, <<"a","n","d">>, <<"o","r">>, <<"w","i","t","h">>, <<"i","n">>, <<"o","n">>, <<"o","f">>, <<"f","o","r">>, <<"t","o">>}

acceptable_additions == {
    <<"w","r","a","p">>, <<"p","l","a","t","e">>, <<"s","a","n","d","w","i","c","h">>, <<"s","a","l","a","d">>, <<"b","o","w","l">>, <<"m","e","a","l">>, <<"p","i","t","a">>,
    <<"w","i","t","h">>, <<"a","n","d">>, <<"t","h","e">>, <<"a">>, <<"a","n">>, <<"o","f">>, <<"i","n">>, <<"o","n">> }

significant_food_words == {
    <<"p","i","z","z","a">>, <<"b","u","r","g","e","r">>, <<"p","a","s","t","a">>, <<"s","o","u","p">>, <<"s","a","l","a","d">>, <<"s","a","n","d","w","i","c","h">>,
    <<"w","r","a","p">>, <<"t","a","c","o">>, <<"b","u","r","r","i","t","o">>, <<"q","u","e","s","a","d","i","l","l","a">>, <<"c","a","l","z","o","n","e">> }

\* has_significant_extra without the list of acceptable additions.
any_significant_word(words) ==
    \E word \in words : word \in significant_food_words

\* Some extra word is not an acceptable addition and is a significant food word.
has_significant_extra(words) ==
    \E word \in words : word \notin acceptable_additions /\ word \in significant_food_words

\* set(s.replace(' ', ''))
char_set(s) == Range(s) \ {" "}

is_partial_match(query_in, dish_name_in) ==
    LET query == strip(query_in)
        dish_name == strip(dish_name_in)
        query_words == Range(split(query))
        dish_words == Range(split(dish_name))
        query_words_clean == query_words \ PARTIAL_STOP_WORDS
        dish_words_clean == dish_words \ PARTIAL_STOP_WORDS
        common_words == query_words_clean \cap dish_words_clean
        query_chars == char_set(query)
        dish_chars == char_set(dish_name)
        max_chars == Max2(Cardinality(query_chars), Cardinality(dish_chars))
        overlap == Cardinality(query_chars \cap dish_chars)
        query_pos == find(dish_name, query)
        after == query_pos + Len(query)
        rest == strip(SubSeq(dish_name, Len(query) + 1, Len(dish_name)))
    IN  IF query = dish_name THEN FALSE
        ELSE IF /\ common_words = {}
                /\ query_words_clean # {}
                /\ dish_words_clean # {}
                /\ 10 * overlap < 4 * max_chars
             THEN TRUE
        ELSE IF /\ ~startswith(dish_name, query)
                /\ contains(dish_name, query)
                /\ \/ (query_pos > 0 /\ dish_name[query_pos] # " ")
                   \/ (after < Len(dish_name)
                       /\ dish_name[after + 1] \notin {" ", "-", ",", "."})
             THEN TRUE
        ELSE IF /\ ~startswith(dish_name, query)
                /\ ~contains(dish_name, query)
                /\ common_words = {}
             THEN TRUE
        ELSE IF startswith(dish_name, query)
             THEN IF rest = <<>> THEN FALSE ELSE has_significant_extra(Range(split(rest)))
        ELSE IF query_words \subseteq dish_words
             THEN has_significant_extra(dish_words \ query_words)
        ELSE /\ query_chars # {}
             /\ dish_chars # {}
             /\ 2 * overlap < max_chars

\* The WHERE clause on the country: country selects it, exclude_country
\* excludes it (an empty argument adds no clause).
country_clause(dish, country, exclude_country) ==
    /\ country # <<>> => lower(dish.country) = lower(country)
    /\ exclude_country # <<>> => lower(dish.country) # lower(exclude_country)

\* ORDER BY key on a list of rows (positions in the table): the rows with
\* the smallest key first, ties in table order.
RECURSIVE order_by(_, _)
order_by(rows, key) ==
    IF rows = {} THEN <<>>
    ELSE LET r == CHOOSE x \in rows : \A y \in rows \ {x} :
                      key[x] < key[y] \/ (key[x] = key[y] /\ x < y)
         IN  <<r>> \o order_by(rows \ {r}, key)

QueryLimit == 10

limit(rows, n) == SubSeq(rows, 1, IF Len(rows) < n THEN Len(rows) ELSE n)

\* The first row whose dish passes the partial-match filter (0 when none):
\* the loop  for row in rows: if partial: continue; return.
RECURSIVE first_acceptable(_, _, _, _)
first_acceptable(dishes, rows, query_lower, filtering) ==
    IF rows = <<>> THEN 0
    ELSE IF filtering /\ is_partial_match(query_lower, lower(dishes[Head(rows)].name))
         THEN first_acceptable(dishes, Tail(rows), query_lower, filtering)
    ELSE Head(rows)

\* The row _exact_or_prefix_search returns when no name is equal: the
\* first acceptable prefix row, or None.
prefix_result(hit) ==
    IF hit # 0 THEN [dish |-> hit, match_type |-> "prefix"]
    ELSE [dish |-> 0, match_type |-> "none"]

\* What _exact_or_prefix_search returns: the dish (0 for None) and the match type.
exact_or_prefix_search(dishes, query_lower, country, exclude_country) ==
    LET rows == {i \in DOMAIN dishes : country_clause(dishes[i], country, exclude_country)}
        exact == {i \in rows : lower(dishes[i].name) = query_lower}
        prefix == limit(order_by({i \in rows : startswith(lower(dishes[i].name), query_lower)},
                                 [i \in DOMAIN dishes |-> Len(dishes[i].name)]),
                        QueryLimit)
    IN  IF exact # {}
        THEN [dish |-> CHOOSE i \in exact : \A j \in exact : i <= j, match_type |-> "exact"]
        ELSE prefix_result(first_acceptable(dishes, prefix, query_lower, TRUE))

MinThreshold == 40

\* The first of the three queries of _vector_search that returned a row.
first_hit(first, second, third) ==
    IF first # 0 THEN first ELSE IF second # 0 THEN second ELSE third

\* (dish, float(similarity)), or None.
with_similarity(hit, sim) == [dish |-> hit, similarity |-> IF hit = 0 THEN 0 ELSE sim[hit]]

\* What _vector_search returns: the dish (0 for None) and its similarity.
\* sim[i] is the cosine similarity of dish i to the query, in hundredths.
vector_search(dishes, sim, country, exclude_country, threshold, query_text) ==
    LET query_lower == strip(lower(query_text))
        rows == {i \in DOMAIN dishes : country_clause(dishes[i], country, exclude_country)}
        by_similarity(S) == limit(order_by(S, [i \in DOMAIN dishes |-> 0 - sim[i]]), QueryLimit)
        confident(i) == sim[i] >= MinThreshold
    IN  with_similarity(
            first_hit(
                first_acceptable(dishes, by_similarity({i \in rows : sim[i] >= threshold}),
                                 query_lower, query_text # <<>>),
                first_acceptable(dishes, by_similarity({i \in rows : sim[i] >= MinThreshold}),
                                 query_lower, query_text # <<>>),
                first_acceptable(dishes, SelectSeq(by_similarity(rows), confident),
                                 query_lower, query_text # <<>>)),
            sim)

\* What search_with_country_priority returns, and the phase that returned.
Result(i, s, own, phase) ==
    [dish |-> i, similarity |-> s, is_from_user_country |-> own, phase |-> phase]

NoResult == Result(0, 0, FALSE, "none")

COMMON_WORDS_STOP == {<<"t","h","e">>, <<"a">>, <<"a","n">>, <<"a","n","d">>, <<"o","r">>, <<"w","i","t","h">>, <<"i","n">>, <<"o","n">>, <<"o","f">>}

\* Phase 0 on the row exact_result of the exact/prefix search in the user's
\* country: dropped when it is a partial match, or a prefix match sharing no
\* word with the query.
phase0_result(dishes, exact_result, query_lower) ==
    IF exact_result.dish = 0 THEN NoResult
    ELSE IF is_partial_match(query_lower, lower(dishes[exact_result.dish].name)) THEN NoResult
    ELSE IF /\ exact_result.match_type = "prefix"
            /\ (Range(split(query_lower)) \ COMMON_WORDS_STOP)
                   \cap (Range(split(lower(dishes[exact_result.dish].name))) \ COMMON_WORDS_STOP) = {}
            /\ Range(split(query_lower)) \ COMMON_WORDS_STOP # {}
         THEN NoResult
    ELSE Result(exact_result.dish,
                IF exact_result.match_type = "exact" THEN 95 ELSE 90, TRUE, "phase0")

\* Phase 0: exact or prefix match in the user's country.
phase0(dishes, user_country, query_text) ==
    IF query_text = <<>> THEN NoResult
    ELSE phase0_result(dishes,
             exact_or_prefix_search(dishes, strip(lower(query_text)), user_country, <<>>),
             strip(lower(query_text)))

\* A vector-search phase on the row r of _vector_search: the hit is dropped
\* when it is a partial match of the query text, and (phase 2 only) when it
\* is below min_confidence.
vector_phase_result(dishes, r, query_text, floor, own, phase) ==
    IF r.dish = 0 THEN NoResult
    ELSE IF query_text # <<>>
            /\ is_partial_match(strip(lower(query_text)), lower(dishes[r.dish].name))
         THEN NoResult
    ELSE IF r.similarity >= floor THEN Result(r.dish, r.similarity, own, phase)
    ELSE NoResult

vector_phase(dishes, sim, country, exclude_country, threshold, query_text, floor, own, phase) ==
    vector_phase_result(dishes,
        vector_search(dishes, sim, country, exclude_country, threshold, query_text),
        query_text, floor, own, phase)

\* Phase 3 on the row exact_result of the exact/prefix search in the other
\* countries.
phase3_result(dishes, exact_result, query_lower) ==
    IF exact_result.dish = 0 THEN NoResult
    ELSE IF is_partial_match(query_lower, lower(dishes[exact_result.dish].name))
         THEN NoResult
    ELSE Result(exact_result.dish,
                IF exact_result.match_type = "exact" THEN 95 ELSE 90, FALSE, "phase3")

\* Phase 3: exact or prefix match in the other countries.
phase3(dishes, user_country, query_text) ==
    IF query_text = <<>> THEN NoResult
    ELSE phase3_result(dishes,
             exact_or_prefix_search(dishes, strip(lower(query_text)), <<>>, user_country),
             strip(lower(query_text)))

\* The result of the first phase that returned (each phase returns at once).
RECURSIVE first_phase(_)
first_phase(phases) ==
    IF phases = <<>> THEN NoResult
    ELSE IF Head(phases).dish # 0 THEN Head(phases)
    ELSE first_phase(Tail(phases))

\* The phases of the other countries tried before those of the user's.
other_countries_first(dishes, sim, user_country, query_text, threshold, min_confidence) ==
    first_phase(<<
        phase3(dishes, user_country, query_text),
        vector_phase(dishes, sim, <<>>, user_country, Max2(threshold, min_confidence),
                     query_text, 0, FALSE, "phase4"),
        phase0(dishes, user_country, query_text),
        vector_phase(dishes, sim, user_country, <<>>, Max2(threshold, min_confidence),
                     query_text, 0, TRUE, "phase1") >>)

search_with_country_priority(dishes, sim, user_country, query_text, threshold, min_confidence) ==
    LET high == Max2(threshold, min_confidence)
        lowered == threshold < min_confidence
    IN  first_phase(<<
            phase0(dishes, user_country, query_text),
            vector_phase(dishes, sim, user_country, <<>>, high, query_text, 0, TRUE, "phase1"),
            IF lowered
            THEN vector_phase(dishes, sim, user_country, <<>>, threshold, query_text,
                              min_confidence, TRUE, "phase2")
            ELSE NoResult,
            phase3(dishes, user_country, query_text),
            vector_phase(dishes, sim, <<>>, user_country, high, query_text, 0, FALSE, "phase4"),
            IF lowered
            THEN vector_phase(dishes, sim, <<>>, user_country, threshold, query_text, 0,
                              FALSE, "phase5")
            ELSE NoResult >>)

\* ------------------------------------------------------------------------
\* USDAHandler (data/usda_handler.py). A food is a record of its
\* description, its id and its nutrients per 100 g.
\* ------------------------------------------------------------------------

\* What search_ingredient returns: the position of the food in all_foods
\* (0 for None) and the strategy that returned it.
Hit(i, step) == [food |-> i, step |-> step]

NoFood == Hit(0, "none")

\* food_items: the foods that have a description.
food_items(foods) ==
    SelectSeq([i \in DOMAIN foods |-> i], LAMBDA i : foods[i].description # <<>>)

\* any(word in text for word in words)
any_in(words, text) == \E w \in words : contains(text, w)

\* list.sort(key=...)[0] for keys that are pairs of numbers: the item with
\* the smallest key, the first of them in list order (the sort is stable).
first_sorted(items, key1, key2) ==
    items[CHOOSE a \in DOMAIN items : \A b \in DOMAIN items :
        \/ key1[items[a]] < key1[items[b]]
        \/ (key1[items[a]] = key1[items[b]] /\ key2[items[a]] < key2[items[b]])
        \/ (key1[items[a]] = key1[items[b]] /\ key2[items[a]] = key2[items[b]] /\ a <= b)]

\* Strategy 1: the first food whose lower-cased description is the term.
exact_food(foods, items, search_term) ==
    LET exact == {k \in DOMAIN items : lower(foods[items[k]].description) = search_term}
    IN  IF exact = {} THEN NoFood
        ELSE Hit(items[CHOOSE k \in exact : \A m \in exact : k <= m], "exact")

\* A starts-with match without a penalty.
no_penalty(desc_lower) == 0

\* score_match: the penalty of a starts-with match.
starts_penalty(desc_lower) ==
    (IF any_in({<<"e","x","t","r","a">>, <<"l","i","g","h","t">>, <<"l","o","w">>, <<"r","e","d","u","c","e","d">>, <<"f","a","t","-","f","r","e","e">>}, desc_lower)
     THEN 100 ELSE 0)
    + (IF contains(desc_lower, <<"s","a","l","a","d">>) \/ contains(desc_lower, <<"d","r","e","s","s","i","n","g">>)
       THEN 50 ELSE 0)

\* The best of the starts-with matches, by (penalty, length).
best_start(foods, starts_matches) ==
    IF starts_matches = <<>> THEN NoFood
    ELSE Hit(first_sorted(starts_matches,
                          [i \in DOMAIN foods |-> starts_penalty(lower(foods[i].description))],
                          [i \in DOMAIN foods |-> Len(foods[i].description)]),
             "prefix")

\* Strategy 2: the descriptions that start with the term.
starts_with_food(foods, items, search_term) ==
    best_start(foods,
        SelectSeq(items, LAMBDA i :
            \/ startswith(lower(foods[i].description), search_term)
            \/ startswith(lower(foods[i].description), search_term \o <<",">>)))

\* [p.strip() for p in text.split(',')]
comma_parts(text) == [k \in DOMAIN splitSep(text, ",") |-> strip(splitSep(text, ",")[k])]

\* The score of a description in strategy 3 (-1 when it is no match).
contains_score(desc_lower, search_parts) ==
    IF ~(comma_parts(desc_lower)[1] = search_parts[1]
         \/ comma_parts(desc_lower)[1] = search_parts[1] \o <<"s">>)
    THEN -1
    ELSE IF Len(search_parts) > 1
         THEN IF \A k \in DOMAIN search_parts : contains(desc_lower, search_parts[k])
              THEN 100 + (IF contains(desc_lower, <<"r","a","w">>) THEN 10 ELSE 0)
              ELSE -1
    ELSE 100 + (IF contains(desc_lower, <<"r","a","w">>) THEN 20 ELSE 0)
             - (IF any_in({<<"j","u","i","c","e">>, <<"p","u","d","d","i","n","g">>, <<"p","i","e">>, <<"c","a","k","e">>, <<"l","o","a","f">>, <<"b","a","b","y">>, <<"i","n","f","a","n","t">>},
                          desc_lower)
                THEN 50 ELSE 0)

\* The best of the contains matches, by (-score, length).
best_contains(foods, contains_matches, score) ==
    IF contains_matches = <<>> THEN NoFood
    ELSE Hit(first_sorted(contains_matches,
                          [i \in DOMAIN foods |-> 0 - score[i]],
                          [i \in DOMAIN foods |-> Len(foods[i].description)]),
             "contains")

\* The foods strategy 3 keeps, in the order of the list.
matching_parts(items, score) == SelectSeq(items, LAMBDA i : score[i] # -1)

\* Strategy 3: the descriptions whose first part is the main ingredient.
contains_food(foods, items, search_term) ==
    LET score == [i \in DOMAIN foods |->
                     contains_score(lower(foods[i].description), comma_parts(search_term))]
    IN  best_contains(foods, matching_parts(items, score), score)

\* The acceptance rule of strategy 4 on the result of extractOne: the first
\* food whose lower-cased description is the matched one.
fuzzy_food_accept(items, names, result, threshold) ==
    IF result.index = 0 THEN NoFood
    ELSE IF FracGE(result.score, Frac(threshold, 100))
         THEN Hit(items[CHOOSE j \in DOMAIN names :
                      /\ names[j] = names[result.index]
                      /\ \A m \in 1..(j - 1) : names[m] # names[result.index]],
                  "fuzzy")
    ELSE NoFood

\* The lower-cased descriptions the fuzzy matcher chooses from.
food_names(foods, items) == [k \in DOMAIN items |-> lower(foods[items[k]].description)]

\* The token_sort_ratio of the search term against each description.
food_scores(search_term, names) ==
    [k \in DOMAIN names |-> token_sort_ratio(search_term, names[k])]

\* Strategy 4: the best token_sort_ratio, if it reaches the threshold.
fuzzy_food(foods, items, search_term, threshold) ==
    fuzzy_food_accept(items, food_names(foods, items),
                      extractOne(food_scores(search_term, food_names(foods, items))),
                      threshold)

\* The result of the first strategy that returned a food.
RECURSIVE first_food(_)
first_food(steps) ==
    IF steps = <<>> THEN NoFood
    ELSE IF Head(steps).food # 0 THEN Head(steps)
    ELSE first_food(Tail(steps))

\* search_ingredient with the fuzzy strategy tried before the others.
search_ingredient_fuzzy_first(foods, ingredient_name, threshold) ==
    IF foods = <<>> THEN NoFood
    ELSE first_food(<<
        fuzzy_food(foods, food_items(foods), strip(lower(ingredient_name)), threshold),
        exact_food(foods, food_items(foods), strip(lower(ingredient_name))),
        starts_with_food(foods, food_items(foods), strip(lower(ingredient_name))),
        contains_food(foods, food_items(foods), strip(lower(ingredient_name))) >>)

search_ingredient(foods, ingredient_name, threshold) ==
    IF foods = <<>> THEN NoFood
    ELSE first_food(<<
        exact_food(foods, food_items(foods), strip(lower(ingredient_name))),
        starts_with_food(foods, food_items(foods), strip(lower(ingredient_name))),
        contains_food(foods, food_items(foods), strip(lower(ingredient_name))),
        fuzzy_food(foods, food_items(foods), strip(lower(ingredient_name)), threshold) >>)

\* ------------------------------------------------------------------------
\* USDARepository (repositories/usda.py), NutritionService and
\* IngredientManager. sim[i] is the cosine similarity of food i to the
\* query, in hundredths.
\* ------------------------------------------------------------------------

FoodMinThreshold == 40

\* ORDER BY similarity DESC LIMIT 1 over the rows: the most similar row, the
\* first of them in table order (0 when there is no row).
most_similar(rows, sim) ==
    IF rows = {} THEN 0
    ELSE CHOOSE i \in rows : \A j \in rows : sim[i] > sim[j] \/ (sim[i] = sim[j] /\ i <= j)

\* The last query of search: the best row, kept if it reaches min_threshold.
last_resort(best, sim) == IF best # 0 /\ sim[best] >= FoodMinThreshold THEN best ELSE 0

\* (food, float(similarity)), or None.
food_with_similarity(hit, sim) ==
    [food |-> hit, similarity |-> IF hit = 0 THEN 0 ELSE sim[hit]]

NoFoodRow == [food |-> 0, similarity |-> 0]

\* USDARepository.search
usda_search(foods, sim, threshold) ==
    food_with_similarity(
        first_hit(most_similar({i \in DOMAIN foods : sim[i] >= threshold}, sim),
                  most_similar({i \in DOMAIN foods : sim[i] >= FoodMinThreshold}, sim),
                  last_resort(most_similar(DOMAIN foods, sim), sim)),
        sim)

prefixes_to_remove == <<<<"c","a","l","o","r","i","e","s"," ","i","n">>, <<"c","a","l","o","r","i","e"," ","i","n">>, <<"c","a","l"," ","i","n">>, <<"h","o","w"," ","m","a","n","y"," ","c","a","l","o","r","i","e","s"," ","i","n">>>>

\* The loop that removes the common prefixes, one after the other.
RECURSIVE remove_prefixes(_, _)
remove_prefixes(search_lower, prefixes) ==
    IF prefixes = <<>> THEN search_lower
    ELSE IF startswith(search_lower, Head(prefixes))
         THEN remove_prefixes(strip(SubSeq(search_lower, Len(Head(prefixes)) + 1,
                                           Len(search_lower))),
                              Tail(prefixes))
    ELSE remove_prefixes(search_lower, Tail(prefixes))

\* The words of the contains query: those longer than two characters.
text_words(search_lower) == SelectSeq(split(search_lower), LAMBDA w : Len(strip(w)) > 2)

\* The three queries of search_by_text on the cleaned text: the rows of the
\* first one that has any.
text_rows(foods, search_lower, n) ==
    LET exact == {i \in DOMAIN foods : lower(foods[i].description) = search_lower}
        by_length == [i \in DOMAIN foods |-> Len(foods[i].description)]
        starts_with == {i \in DOMAIN foods :
                           startswith(lower(foods[i].description), search_lower)}
        containing == {i \in DOMAIN foods :
                          \E k \in DOMAIN text_words(search_lower) :
                              contains(lower(foods[i].description),
                                       text_words(search_lower)[k])}
    IN  IF exact # {} THEN <<CHOOSE i \in exact : \A j \in exact : i <= j>>
        ELSE IF starts_with # {} THEN limit(order_by(starts_with, by_length), n)
        ELSE limit(order_by(containing, by_length), n)

\* USDARepository.search_by_text
search_by_text(foods, search_text, n) ==
    text_rows(foods, remove_prefixes(strip(lower(search_text)), prefixes_to_remove), n)

TextLimit == 5

TextSimilarity == 50

\* The text fallback of search_with_fallback: the first text match, with
\* the placeholder similarity 0.5.
text_fallback(text_results) ==
    IF text_results = <<>> THEN NoFoodRow
    ELSE [food |-> text_results[1], similarity |-> TextSimilarity]

\* What search_with_fallback makes of the vector result.
vector_or_text(foods, result, query_text) ==
    IF result.food # 0 THEN result
    ELSE text_fallback(search_by_text(foods, query_text, TextLimit))

\* USDARepository.search_with_fallback
search_with_fallback(foods, query_text, sim, threshold) ==
    vector_or_text(foods, usda_search(foods, sim, threshold), query_text)

\* round(x, 1) of x = n / d, in tenths. Python rounds the double nearest to
\* x: a value halfway between two tenths that a double holds exactly (x.25,
\* x.75) goes to the even tenth, as here; another halfway value goes where
\* its double lies, and the inputs of the specifications have none.
round1(n, d) ==
    LET twice == (20 * n) \div d
        exact_half == (20 * n) % d = 0 /\ twice % 2 = 1
    IN  IF exact_half
        THEN IF ((twice - 1) \div 2) % 2 = 0 THEN (twice - 1) \div 2 ELSE (twice + 1) \div 2
        ELSE (twice + 1) \div 2

\* NutritionService.calculate_nutrition_by_weight: the nutrients of
\* weight_g grams from the nutrients of 100 g, each rounded to one decimal.
\* The macros of an ingredient are kept in hundredths.
calculate_nutrition_by_weight(calories, carbs, protein, fat, weight_g) ==
    [calories |-> 10 * round1(calories * weight_g, 100),
     carbs |-> 10 * round1(carbs * weight_g, 100),
     protein |-> 10 * round1(protein * weight_g, 100),
     fat |-> 10 * round1(fat * weight_g, 100)]

IngredientBase(name, weight_g) == [name |-> name, weight_g |-> weight_g]

IngredientWithNutrition(name, weight_g, usda_fdc_id, nutrition) ==
    [name |-> name, weight_g |-> weight_g, usda_fdc_id |-> usda_fdc_id,
     calories |-> nutrition.calories, carbs |-> nutrition.carbs,
     protein |-> nutrition.protein, fat |-> nutrition.fat]

SearchAndCalculateThreshold == 50

\* What search_and_calculate makes of the row the search returned: the
\* food found (0 for None), its similarity, and the ingredient built.
resolved_ingredient(foods, ingredient, result) ==
    IF result.food = 0
    THEN [food |-> 0, similarity |-> 0, ingredient |-> <<>>]
    ELSE [food |-> result.food, similarity |-> result.similarity,
          ingredient |-> IngredientWithNutrition(
              foods[result.food].description, ingredient.weight_g,
              foods[result.food].fdc_id,
              calculate_nutrition_by_weight(
                  foods[result.food].calories, foods[result.food].carbs,
                  foods[result.food].protein, foods[result.food].fat,
                  ingredient.weight_g))]

\* IngredientManager.search_and_calculate
search_and_calculate(foods, ingredient, sim) ==
    resolved_ingredient(foods, ingredient,
        search_with_fallback(foods, ingredient.name, sim, SearchAndCalculateThreshold))

\* ------------------------------------------------------------------------
\* RecipeModifier (core/recipe_modifier.py)
\* ------------------------------------------------------------------------

\* The plural-to-singular and alias table as <<name, core name>> pairs.
plural_to_singular == <<
    <<<<"p","o","t","a","t","o","e","s">>, <<"p","o","t","a","t","o">>>>, <<<<"p","o","t","a","t","o">>, <<"p","o","t","a","t","o">>>>,
    <<<<"t","o","m","a","t","o","e","s">>, <<"t","o","m","a","t","o">>>>, <<<<"t","o","m","a","t","o">>, <<"t","o","m","a","t","o">>>>,
    <<<<"o","n","i","o","n","s">>, <<"o","n","i","o","n">>>>, <<<<"o","n","i","o","n">>, <<"o","n","i","o","n">>>>,
    <<<<"p","e","p","p","e","r","s">>, <<"p","e","p","p","e","r">>>>, <<<<"p","e","p","p","e","r">>, <<"p","e","p","p","e","r">>>>,
    <<<<"m","u","s","h","r","o","o","m","s">>, <<"m","u","s","h","r","o","o","m">>>>, <<<<"m","u","s","h","r","o","o","m">>, <<"m","u","s","h","r","o","o","m">>>>,
    <<<<"p","i","c","k","l","e","s">>, <<"p","i","c","k","l","e">>>>, <<<<"p","i","c","k","l","e">>, <<"p","i","c","k","l","e">>>>,
    <<<<"f","r","i","e","s">>, <<"p","o","t","a","t","o">>>>, <<<<"f","r","e","n","c","h"," ","f","r","i","e","s">>, <<"p","o","t","a","t","o">>>>,
    <<<<"f","r","e","n","c","h"," ","f","r","y">>, <<"p","o","t","a","t","o">>>>, <<<<"s","t","e","a","k"," ","f","r","i","e","s">>, <<"p","o","t","a","t","o">>>> >>

\* key in plural_to_singular
in_table(key) == \E i \in DOMAIN plural_to_singular : plural_to_singular[i][1] = key

\* plural_to_singular[key]
table_value(key) ==
    plural_to_singular[CHOOSE i \in DOMAIN plural_to_singular :
                           plural_to_singular[i][1] = key][2]

\* The core name of the first word of a description.
core_of_word(first_word) ==
    IF in_table(first_word) THEN table_value(first_word)
    ELSE IF /\ first_word[Len(first_word)] = "s"
            /\ Len(first_word) > 3
            /\ SubSeq(first_word, 1, Len(first_word) - 1)
                   \notin {<<"c","h","i","c">>, <<"o","n","i","o","n">>, <<"p","e","p","p","e","r">>}
         THEN SubSeq(first_word, 1, Len(first_word) - 1)
    ELSE first_word

\* The core name from the words of the first comma-separated part.
core_of_words(words, name_lower) ==
    IF Len(words) >= 2 /\ in_table(words[1] \o <<" ">> \o words[2])
    THEN table_value(words[1] \o <<" ">> \o words[2])
    ELSE IF words # <<>> THEN core_of_word(words[1])
    ELSE name_lower

extract_core_ingredient(ingredient_name) ==
    IF ingredient_name = <<>> THEN <<>>
    ELSE core_of_words(split(strip(splitSep(strip(lower(ingredient_name)), ",")[1])),
                       strip(lower(ingredient_name)))

\* The match rule on the normalized names and the core names.
cores_match(query_lower, db_lower, query_core, db_core) ==
    \/ (query_core # <<>> /\ db_core # <<>> /\ query_core = db_core)
    \/ (query_core # <<>> /\ contains(db_lower, query_core))
    \/ (db_core # <<>> /\ contains(query_lower, db_core))
    \/ contains(db_lower, query_lower)
    \/ contains(query_lower, db_lower)

ingredients_match(query_ingredient, db_ingredient) ==
    IF query_ingredient = <<>> \/ db_ingredient = <<>> THEN FALSE
    ELSE cores_match(strip(lower(query_ingredient)), strip(lower(db_ingredient)),
                     extract_core_ingredient(query_ingredient),
                     extract_core_ingredient(db_ingredient))

\* _remove_ingredient that stops removing after the first match.
RECURSIVE remove_first_match(_, _)
remove_first_match(ingredients, ingredient_name) ==
    IF ingredients = <<>> THEN <<>>
    ELSE IF Head(ingredients).name # <<>>
            /\ ingredients_match(ingredient_name, Head(ingredients).name)
         THEN Tail(ingredients)
    ELSE <<Head(ingredients)>> \o remove_first_match(Tail(ingredients), ingredient_name)

\* The loop of _remove_ingredient: an ingredient without a name, or one
\* that does not match, is kept.
RECURSIVE remove_loop(_, _)
remove_loop(ingredients, ingredient_name) ==
    IF ingredients = <<>> THEN <<>>
    ELSE (IF Head(ingredients).name = <<>>
             \/ ~ingredients_match(ingredient_name, Head(ingredients).name)
          THEN <<Head(ingredients)>> ELSE <<>>)
         \o remove_loop(Tail(ingredients), ingredient_name)

remove_ingredient(ingredients, ingredient_name) ==
    IF ingredient_name = <<>> \/ ingredients = <<>> THEN ingredients
    ELSE remove_loop(ingredients, ingredient_name)

\* The per-100 g value _change_quantity derives from a nutrient of an
\* ingredient (in hundredths) and its weight: value * (100 / weight_g), or
\* 0 when the weight is not positive. A rational number of units: the
\* hundred of the rate and the hundred of the hundredths cancel.
per_100g_rate(value, weight_g) ==
    IF weight_g > 0 THEN Frac(value, weight_g) ELSE Frac(0, 1)

\* calculate_nutrition_by_weight on one derived per-100 g value: the
\* nutrient of weight_g grams, rounded to one decimal; in hundredths.
scale_rate(rate, weight_g) == 10 * round1(rate.num * weight_g, rate.den * 100)

\* The ingredient _change_quantity would build if the nutrients of an
\* ingredient were taken as per-100 g values.
scaled_as_per_100g(ing, new_weight_g) ==
    IngredientWithNutrition(ing.name, new_weight_g, ing.usda_fdc_id,
        [calories |-> scale_rate(Frac(ing.calories, 100), new_weight_g),
         carbs |-> scale_rate(Frac(ing.carbs, 100), new_weight_g),
         protein |-> scale_rate(Frac(ing.protein, 100), new_weight_g),
         fat |-> scale_rate(Frac(ing.fat, 100), new_weight_g)])

\* The ingredient _change_quantity builds for a matching ingredient.
updated_ingredient(ing, new_weight_g) ==
    IngredientWithNutrition(ing.name, new_weight_g, ing.usda_fdc_id,
        [calories |-> scale_rate(per_100g_rate(ing.calories, ing.weight_g), new_weight_g),
         carbs |-> scale_rate(per_100g_rate(ing.carbs, ing.weight_g), new_weight_g),
         protein |-> scale_rate(per_100g_rate(ing.protein, ing.weight_g), new_weight_g),
         fat |-> scale_rate(per_100g_rate(ing.fat, ing.weight_g), new_weight_g)])

\* _change_quantity that sets the new weight and keeps the nutrients.
change_weight_only(ingredients, ingredient_name, new_weight_g) ==
    IF ingredient_name = <<>> \/ new_weight_g = <<>> \/ new_weight_g = <<0>>
    THEN ingredients
    ELSE [k \in DOMAIN ingredients |->
             IF /\ ingredients[k].name # <<>>
                /\ ingredients_match(ingredient_name, ingredients[k].name)
             THEN [ingredients[k] EXCEPT !.weight_g = new_weight_g[1]]
             ELSE ingredients[k]]

\* _change_quantity; new_weight_g is <<>> (None) or <<w>>. Nothing changes when the
\* name is empty or the weight is None or 0.
change_quantity(ingredients, ingredient_name, new_weight_g) ==
    IF ingredient_name = <<>> \/ new_weight_g = <<>> \/ new_weight_g = <<0>>
    THEN ingredients
    ELSE [k \in DOMAIN ingredients |->
             IF /\ ingredients[k].name # <<>>
                /\ ingredients_match(ingredient_name, ingredients[k].name)
             THEN updated_ingredient(ingredients[k], new_weight_g[1])
             ELSE ingredients[k]]


\* A list object the modifier works on, beside the list object of the
\* caller: result is the working list, caller the caller's list, and same
\* tells whether they are one object, so that what is done to the working
\* list in place is done to the caller's list.
Lists(caller, result, same) == [caller |-> caller, result |-> result, same |-> same]

\* apply_modifications without the copy: the working list is the caller's.
list_alias(ingredients) == Lists(ingredients, ingredients, TRUE)

\* result = list(ingredients): a new list object with the same elements.
list_copy(ingredients) == Lists(ingredients, ingredients, FALSE)

\* The weight _add_ingredient takes when new_weight_g is None.
DefaultAddWeight == 30

\* ingredients.append(new_ingredient), in place.
append_in_place(lists, new_ingredient) ==
    Lists(IF lists.same THEN Append(lists.caller, new_ingredient) ELSE lists.caller,
          Append(lists.result, new_ingredient), lists.same)

\* What _add_ingredient does with the result of search_and_calculate:
\* appended if there is one.
append_resolved(lists, new_ingredient) ==
    IF new_ingredient.food # 0 THEN append_in_place(lists, new_ingredient.ingredient)
    ELSE lists

\* RecipeModifier._add_ingredient; sim[i] is the similarity of food i to
\* ingredient_name, weight_g is <<>> for None.
add_ingredient(foods, sim, lists, ingredient_name, weight_g) ==
    append_resolved(lists,
        search_and_calculate(foods,
            IngredientBase(ingredient_name,
                           IF weight_g = <<>> THEN DefaultAddWeight ELSE weight_g[1]),
            sim))

ModificationAction(action, ingredient, new_weight_g) ==
    [action |-> action, ingredient |-> ingredient, new_weight_g |-> new_weight_g]

\* One turn of the loop of apply_modifications. A modification without an
\* ingredient name is skipped. _remove_ingredient and _change_quantity
\* return the list they were given when they return early, and a new list
\* otherwise.
apply_one(foods, sim, lists, mod) ==
    IF mod.ingredient = <<>> THEN lists
    ELSE IF mod.action = "remove"
         THEN Lists(lists.caller, remove_ingredient(lists.result, mod.ingredient),
                    lists.same /\ lists.result = <<>>)
    ELSE IF mod.action = "add"
         THEN add_ingredient(foods, sim, lists, mod.ingredient, mod.new_weight_g)
    ELSE IF mod.action = "change_quantity"
         THEN Lists(lists.caller,
                    change_quantity(lists.result, mod.ingredient, mod.new_weight_g),
                    lists.same /\ mod.new_weight_g \in {<<>>, <<0>>})
    ELSE lists

\* The loop of apply_modifications run from the last modification to the
\* first.
RECURSIVE apply_backwards(_, _, _, _)
apply_backwards(foods, sim, lists, modifications) ==
    IF modifications = <<>> THEN lists
    ELSE apply_one(foods, sim,
                   apply_backwards(foods, sim, lists, Tail(modifications)),
                   Head(modifications))

\* for mod in modifications
RECURSIVE apply_loop(_, _, _, _)
apply_loop(foods, sim, lists, modifications) ==
    IF modifications = <<>> THEN lists
    ELSE apply_loop(foods, sim, apply_one(foods, sim, lists, Head(modifications)),
                    Tail(modifications))

\* apply_modifications that has nothing to return when there is nothing
\* to apply.
apply_or_nothing(foods, sim, ingredients, modifications) ==
    IF ingredients = <<>> \/ modifications = <<>> THEN Lists(ingredients, <<>>, FALSE)
    ELSE apply_loop(foods, sim, list_copy(ingredients), modifications)

\* RecipeModifier.apply_modifications(ingredients, modifications, db): the
\* list returned (result) and the caller's list after the call (caller).
\* sim[i] is the similarity of food i to the names the modifications add.
apply_modifications(foods, sim, ingredients, modifications) ==
    IF ingredients = <<>> THEN Lists(ingredients, <<>>, FALSE)
    ELSE IF modifications = <<>> THEN Lists(ingredients, ingredients, TRUE)
    ELSE apply_loop(foods, sim, list_copy(ingredients), modifications)

\* ------------------------------------------------------------------------
\* Totals (core/calorie_calculator.py, services/nutrition.py). The macros
\* are Python floats, and a sum of floats depends on the order of its
\* terms, so the totals are computed on IEEE 754 doubles. A double that is
\* zero or in [1/128, 32768) is a multiple of 2^-60: it is kept as that
\* multiple, written in base 2^15 with the limb of the units first
\* (limb 4 is the whole part, limbs 0 to 3 are the 60 binary places).
\* ------------------------------------------------------------------------

SigBits == 53

LimbBits == 15

Base == 2^LimbBits

LimbPlaces == 0..4

Zero64 == [i \in LimbPlaces |-> 0]

\* The same number with its limbs worked out once.
limbs_of(t) == [i \in LimbPlaces |-> t[i + 1]]

settled(x) == limbs_of(<<x[0], x[1], x[2], x[3], x[4]>>)

\* Bit k of the number (of weight 2^(k - 60)).
bit(limbs, k) == (limbs[k \div LimbBits] \div 2^(k % LimbBits)) % 2

\* Whether a bit below bit k is set.
any_below(limbs, k) ==
    \/ \E i \in LimbPlaces : i < k \div LimbBits /\ limbs[i] # 0
    \/ limbs[k \div LimbBits] % 2^(k % LimbBits) # 0

\* The number without its bits below bit k.
truncated(limbs, k) ==
    settled([i \in LimbPlaces |->
        IF i < k \div LimbBits THEN 0
        ELSE IF i = k \div LimbBits THEN limbs[i] - (limbs[i] % 2^(k % LimbBits))
        ELSE limbs[i]])

\* The carry into limb i of a + b.
carry_into(a, b, i) ==
    \E j \in LimbPlaces :
        /\ j < i /\ a[j] + b[j] >= Base
        /\ \A k \in LimbPlaces : (j < k /\ k < i) => a[k] + b[k] >= Base - 1

\* a + b, exactly (the sum is below 32768)
add_exact(a, b) ==
    settled([i \in LimbPlaces |->
                (a[i] + b[i] + IF carry_into(a, b, i) THEN 1 ELSE 0) % Base])

\* The place of the first bit set of a number that is not zero.
top_bit(limbs) ==
    CHOOSE k \in 0..(5 * LimbBits - 1) :
        /\ bit(limbs, k) = 1
        /\ \A j \in (k + 1)..(5 * LimbBits - 1) : bit(limbs, j) = 0

\* The number with one more in bit k.
plus_bit(limbs, k) ==
    add_exact(limbs, [i \in LimbPlaces |-> IF i = k \div LimbBits THEN 2^(k % LimbBits) ELSE 0])

\* The double nearest to the number whose last significant bit is bit
\* last (at least 1): rounded up when the bit after it is set and either
\* something follows (in the number, or beyond its places: more) or the
\* last bit is set.
round_at(limbs, more, last) ==
    IF bit(limbs, last - 1) = 1
       /\ (more \/ any_below(limbs, last - 1) \/ bit(limbs, last) = 1)
    THEN plus_bit(truncated(limbs, last), last)
    ELSE truncated(limbs, last)

\* The double nearest to a number, of which more tells whether it has more
\* than its 60 binary places: the first SigBits bits are kept.
nearest_double(limbs, more) ==
    IF limbs = Zero64 \/ top_bit(limbs) < SigBits THEN limbs
    ELSE round_at(limbs, more, top_bit(limbs) - (SigBits - 1))

\* What is left of n / d after its whole part and k limbs of places.
RECURSIVE left_after(_, _, _)
left_after(n, d, k) ==
    IF k = 0 THEN n % d ELSE (left_after(n, d, k - 1) * Base) % d

\* The float of the decimal n / d (n >= 0, d > 0, n / d zero or in
\* [1/128, 32768)): the nearest double.
double(n, d) ==
    nearest_double(settled([i \in LimbPlaces |->
                               IF i = 4 THEN n \div d
                               ELSE (left_after(n, d, 3 - i) * Base) \div d]),
                   left_after(n, d, 4) # 0)

\* x + y of two floats: the exact sum, rounded.
float_add(x, y) == nearest_double(add_exact(x, y), FALSE)

\* round(x, 1) of a float below 3276.8, in tenths: the tenth nearest to
\* the exact value of x, halfway cases to the even one; that is the
\* integer nearest to ten_x = 10 * x.
nearest_tenth(ten_x) ==
    IF bit(ten_x, 59) = 1 /\ (any_below(ten_x, 59) \/ ten_x[4] % 2 = 1)
    THEN ten_x[4] + 1 ELSE ten_x[4]

twice(x) == add_exact(x, x)

round_float(x) == nearest_tenth(add_exact(twice(twice(twice(x))), twice(x)))

\* totals.f += ingredient.f for the ingredients in order, from 0.0
RECURSIVE add_all(_, _)
add_all(total, values) ==
    IF values = <<>> THEN total
    ELSE add_all(float_add(total, Head(values)), Tail(values))

\* The floats of a macro of the ingredients (kept in hundredths).
floats_of(ingredients, field) ==
    [k \in DOMAIN ingredients |-> double(ingredients[k][field], 100)]

NutritionTotals(calories, carbs, protein, fat) ==
    [calories |-> calories, carbs |-> carbs, protein |-> protein, fat |-> fat]

\* CalorieCalculator.calculate_totals: floats
calculate_totals(ingredients) ==
    NutritionTotals(add_all(Zero64, floats_of(ingredients, "calories")),
                    add_all(Zero64, floats_of(ingredients, "carbs")),
                    add_all(Zero64, floats_of(ingredients, "protein")),
                    add_all(Zero64, floats_of(ingredients, "fat")))

\* NutritionService.calculate_totals: the same sums, each rounded to one
\* decimal; in tenths.
rounded_totals(ingredients) ==
    NutritionTotals(round_float(calculate_totals(ingredients).calories),
                    round_float(calculate_totals(ingredients).carbs),
                    round_float(calculate_totals(ingredients).protein),
                    round_float(calculate_totals(ingredients).fat))
\* ------------------------------------------------------------------------
\* The orchestrator: ChatServiceNew (services/chat_service_new.py), which
\* the chat route serves, and ChatService (services/chat_service.py), which
\* the evaluation scripts call.
\* ------------------------------------------------------------------------

\* find_dish's default thresholds.
FuzzyThreshold == 85

SemanticThreshold == 85

\* search_with_country_priority's default min_confidence, and the
\* threshold _process_dish passes.
MinConfidence == 70

ProcessDishThreshold == 85

\* settings.similarity_threshold, the threshold of usda_repo.search(e).
DefaultSimilarityThreshold == 75

\* threshold=0.7 of both searches of _fallback_search.
FallbackThreshold == 70

\* weight_g=100.0 of the ingredient _fallback_search makes of a food.
FallbackWeight == 100

GPTAnalysisResponse(dish_name, is_single_ingredient, ingredients_breakdown, modifications) ==
    [dish_name |-> dish_name, is_single_ingredient |-> is_single_ingredient,
     ingredients_breakdown |-> ingredients_breakdown, modifications |-> modifications]

ChatResponse(dish_name, ingredients, totals, source) ==
    [outcome |-> "response", dish_name |-> dish_name, ingredients |-> ingredients,
     totals |-> totals, source |-> source]

\* A call that leaves out the required parameter db raises TypeError when
\* it is made; the handlers do not catch it.
TypeError == [outcome |-> "TypeError"]

\* How a handler ends: what it returned or raised, and its local list
\* ingredients as resolved (before any modification).
Handled(outcome, resolved) == [ret |-> outcome, ingredients |-> resolved]

\* ChatServiceNew._create_error_response
create_error_response ==
    ChatResponse(<<"E","r","r","o","r">>, <<>>, NutritionTotals(0, 0, 0, 0), "dataset")

\* ChatService._create_error_response: the totals are floats.
legacy_error_response ==
    ChatResponse(<<"E","r","r","o","r">>, <<>>, NutritionTotals(Zero64, Zero64, Zero64, Zero64), "dataset")

\* ing.get(field, default) of a stored ingredient.
get_or(ing, field, default) == IF field \in DOMAIN ing THEN ing[field] ELSE default

\* ChatServiceNew._parse_dish_ingredients and the loop of
\* DishesHandler.get_dish_ingredients: a macro the row lacks is 0, and a
\* missing usda_fdc_id is None (0 here).
parse_dish_ingredients(ingredients_json) ==
    [k \in DOMAIN ingredients_json |->
        IngredientWithNutrition(
            ingredients_json[k].name, ingredients_json[k].weight_g,
            get_or(ingredients_json[k], "usda_fdc_id", 0),
            NutritionTotals(get_or(ingredients_json[k], "calories", 0),
                            get_or(ingredients_json[k], "carbs", 0),
                            get_or(ingredients_json[k], "protein", 0),
                            get_or(ingredients_json[k], "fat", 0)))]

\* The loop of ChatServiceNew._process_dish over the breakdown: each
\* ingredient is searched by its embedding (sims[k] are the similarities of
\* the foods to the k-th name); a food found is appended with the
\* nutrition of the weight, an ingredient not found is skipped.
RECURSIVE resolve_breakdown(_, _, _, _)
resolve_breakdown(foods, breakdown, sims, ingredients) ==
    IF breakdown = <<>> THEN ingredients
    ELSE resolve_breakdown(foods, Tail(breakdown), Tail(sims),
            IF usda_search(foods, Head(sims), DefaultSimilarityThreshold).food # 0
            THEN Append(ingredients,
                        resolved_ingredient(foods, Head(breakdown),
                            usda_search(foods, Head(sims),
                                        DefaultSimilarityThreshold)).ingredient)
            ELSE ingredients)

\* The end of ChatServiceNew._process_dish with the totals taken before
\* the last ingredient was appended.
stale_response(dish_name, ingredients, source) ==
    ChatResponse(dish_name, ingredients,
                 rounded_totals(SubSeq(ingredients, 1, Len(ingredients) - 1)), source)

\* The end of the handlers of ChatServiceNew: the totals of the list, and
\* the response that carries both.
totals_response(dish_name, ingredients, source) ==
    ChatResponse(dish_name, ingredients, rounded_totals(ingredients), source)

\* if gpt_response.modifications: recipe_modifier.apply_modifications(
\* ingredients, gpt_response.modifications), the call both services make:
\* the parameter db gets no argument.
modify_and_respond(dish_name, ingredients, modifications, source) ==
    IF modifications # <<>> THEN Handled(TypeError, ingredients)
    ELSE Handled(totals_response(dish_name, ingredients, source), ingredients)

\* ChatServiceNew._process_dish
process_dish(dishes, foods, country, gpt_response, dish_sim, sims) ==
    LET result == search_with_country_priority(dishes, dish_sim, country, <<>>,
                                               ProcessDishThreshold, MinConfidence)
    IN  IF result.dish # 0
        THEN modify_and_respond(dishes[result.dish].name,
                                parse_dish_ingredients(dishes[result.dish].ingredients),
                                gpt_response.modifications, "dataset")
        ELSE IF gpt_response.ingredients_breakdown = <<>>
        THEN Handled(create_error_response, <<>>)
        ELSE modify_and_respond(gpt_response.dish_name,
                                resolve_breakdown(foods, gpt_response.ingredients_breakdown,
                                                  sims, <<>>),
                                gpt_response.modifications, "ai_estimated")

\* ChatServiceNew._process_single_ingredient
process_single_ingredient(foods, gpt_response, sims) ==
    IF gpt_response.ingredients_breakdown = <<>>
    THEN Handled(create_error_response, <<>>)
    ELSE IF usda_search(foods, sims[1], DefaultSimilarityThreshold).food = 0
    THEN Handled(create_error_response, <<>>)
    ELSE LET ingredient ==
                 resolved_ingredient(foods, gpt_response.ingredients_breakdown[1],
                     usda_search(foods, sims[1], DefaultSimilarityThreshold)).ingredient
         IN  Handled(totals_response(ingredient.name, <<ingredient>>, "dataset"),
                     <<ingredient>>)

\* The ingredient _fallback_search makes of a food: 100 g with the stored
\* nutrients of 100 g.
food_as_ingredient(food) ==
    IngredientWithNutrition(food.description, FallbackWeight, food.fdc_id,
        NutritionTotals(100 * food.calories, 100 * food.carbs,
                        100 * food.protein, 100 * food.fat))

\* ChatServiceNew._fallback_search, from the embedding of the cleaned
\* message on.
fallback_search(dishes, foods, country, dish_sim, food_sim) ==
    LET result == search_with_country_priority(dishes, dish_sim, country, <<>>,
                                               FallbackThreshold, MinConfidence)
        usda_result == usda_search(foods, food_sim, FallbackThreshold)
    IN  IF result.dish # 0
        THEN Handled(totals_response(dishes[result.dish].name,
                         parse_dish_ingredients(dishes[result.dish].ingredients),
                         "dataset"),
                     parse_dish_ingredients(dishes[result.dish].ingredients))
        ELSE IF usda_result.food # 0
        THEN Handled(totals_response(foods[usda_result.food].description,
                         <<food_as_ingredient(foods[usda_result.food])>>, "dataset"),
                     <<food_as_ingredient(foods[usda_result.food])>>)
        ELSE Handled(create_error_response, <<>>)

\* ChatService._process_dish. The dish is looked up by its name; a dish
\* found is answered from its stored ingredients with the float totals of
\* CalorieCalculator. Without a dish, the loop over the breakdown calls
\* ingredient_manager.search_and_calculate(ing_base) with no db: the first
\* ingredient raises TypeError.
legacy_process_dish(dishes, country, gpt_response, dish_sim) ==
    LET dish == find_dish(dishes, gpt_response.dish_name, country,
                          FuzzyThreshold, SemanticThreshold, dish_sim)
    IN  IF dish.dish # 0
        THEN IF gpt_response.modifications # <<>>
             THEN Handled(TypeError, parse_dish_ingredients(dishes[dish.dish].ingredients))
             ELSE Handled(ChatResponse(dishes[dish.dish].name,
                              parse_dish_ingredients(dishes[dish.dish].ingredients),
                              calculate_totals(
                                  parse_dish_ingredients(dishes[dish.dish].ingredients)),
                              "dataset"),
                          parse_dish_ingredients(dishes[dish.dish].ingredients))
        ELSE IF gpt_response.ingredients_breakdown = <<>>
        THEN Handled(legacy_error_response, <<>>)
        ELSE Handled(TypeError, <<>>)

\* ------------------------------------------------------------------------
\* NutritionService.calculate_nutrition_by_weight on floats: the weight is
\* divided by 100.0, the nutrient of 100 g is multiplied by the quotient,
\* and the product is rounded to one decimal.
\* ------------------------------------------------------------------------

\* k * x for a whole number k and a float x, exactly.
RECURSIVE times(_, _)
times(k, x) ==
    IF k = 0 THEN Zero64
    ELSE IF k % 2 = 1 THEN add_exact(x, twice(times(k \div 2, x)))
    ELSE twice(times(k \div 2, x))

\* Rounding to a whole number instead of one decimal; in tenths.
round_product_whole(per_100g, weight_g) ==
    10 * ((2 * per_100g * weight_g + 100) \div 200)

\* round(per_100g * multiplier, 1) with multiplier = weight_g / 100.0, for
\* a whole per_100g and a weight of 1 g or more; in tenths.
round_product(per_100g, weight_g) ==
    round_float(nearest_double(times(per_100g, double(weight_g, 100)), FALSE))

\* The record calculate_nutrition_by_weight returns for a food; in tenths.
nutrition_by_weight(food, weight_g) ==
    NutritionTotals(round_product(food.calories, weight_g),
                    round_product(food.carbs, weight_g),
                    round_product(food.protein, weight_g),
                    round_product(food.fat, weight_g))

\* ------------------------------------------------------------------------
\* MissingDishesRepository (repositories/missing_dishes.py) on the table
\* missing_dishes (models/database.py), used by concurrent chat requests,
\* each in a database session of its own (database.get_db).
\* ------------------------------------------------------------------------

\* Chat requests served at the same time, and registrations in a run.
MaxSessions == 2

MaxRegistrations == 3

Sessions == 1..MaxSessions

\* A row of missing_dishes: the columns the registration reads and writes.
MissingDish(dish_name, country, query_count) ==
    [dish_name |-> dish_name, country |-> country, query_count |-> query_count]

\* The rows get_by_name_and_country selects: lower(dish_name) and
\* lower(country) equal to those asked for.
matching_rows(table, dish_name, country) ==
    {i \in DOMAIN table :
        /\ lower(table[i].dish_name) = lower(dish_name)
        /\ lower(table[i].country) = lower(country)}

\* result.scalar_one_or_none(): the row (0 for None), or the exception
\* MultipleResultsFound when the query gave more than one row.
scalar_one_or_none(rows) ==
    IF rows = {} THEN [outcome |-> "none", row |-> 0]
    ELSE IF Cardinality(rows) = 1 THEN [outcome |-> "one", row |-> CHOOSE i \in rows : TRUE]
    ELSE [outcome |-> "MultipleResultsFound", row |-> 0]

\* A database session with no registration under way.
ClosedSession == [pc |-> "closed"]

\* A session after the SELECT of add_or_update: the arguments of the call,
\* and the row read with its query_count as read (0 when there is none).
SelectedSession(dish_name, country, table, found) ==
    [pc |-> IF found.outcome = "MultipleResultsFound" THEN "failed" ELSE "selected",
     dish_name |-> dish_name, country |-> country, existing |-> found.row,
     query_count |-> IF found.row = 0 THEN 0 ELSE table[found.row].query_count]

\* What add_or_update flushes: existing.query_count += 1 on the object
\* read, or a new row with query_count 1.
flushed_write(session) ==
    IF session.existing # 0
    THEN [kind |-> "update", row |-> session.existing,
          query_count |-> session.query_count + 1]
    ELSE [kind |-> "insert", row |-> 0, query_count |-> 1]

\* The table after the commit of a session's write.
committed(table, session) ==
    IF session.pc # "flushed" THEN table
    ELSE IF session.write.kind = "insert"
         THEN Append(table, MissingDish(session.dish_name, session.country,
                                        session.write.query_count))
    ELSE [table EXCEPT ![session.write.row].query_count = session.write.query_count]

\* The registry before any request.
NoRegistry ==
    [missing_dishes |-> <<>>,
     sessions |-> [s \in Sessions |-> ClosedSession],
     registered |-> <<>>,
     overlapped |-> FALSE]

\* ------------------------------------------------------------------------
\* State: the dish store, the food store, and the request being served.
\* ------------------------------------------------------------------------

VARIABLES
    dishes,     \* the dish store: a sequence of [name, country]
    foods,      \* the food-composition store
    ingredients, \* the resolved ingredients of the dish being answered
    pc,         \* "idle" or "done": a request is served in one step
    call,       \* the request served: the operation and its arguments
    ret,        \* what the operation returned
    registry    \* the table of missing dishes and the sessions writing to it

vars == <<dishes, foods, ingredients, pc, call, ret, registry>>

\* No optional argument (None or the empty string).
None == <<>>

NoCall == [op |-> "none"]

\* ---- bounds and input pools -------------------------------------------

MaxDishes == 2

Dish(name, country) == [name |-> name, country |-> country]

DishPool == {
    Dish(<<"H","u","m","m","u","s">>, <<"L","e","b","a","n","o","n">>),
    Dish(<<"h","u","m","m","u","s"," ","p","l","a","t","e">>, <<"L","e","b","a","n","o","n">>),
    Dish(<<"h","u","m","m","u","s">>, <<"S","y","r","i","a">>),
    Dish(<<"h","u","m","m","u","s"," ","a","w","a","r","m","a"," ","p","i","n","e"," ","n","u","t","s">>, <<"L","e","b","a","n","o","n">>),
    Dish(<<"s","h","a","w","a","r","m","a"," ","p","i","z","z","a">>, <<"L","e","b","a","n","o","n">>),
    Dish(<<"S","h","a","w","a","r","m","a"," ","W","r","a","p"," ">>, <<"S","y","r","i","a">>),
    Dish(<<"k","o","u","s","a"," ","m","a","h","s","h","i">>, <<"L","e","b","a","n","o","n">>) }

DishQueries == {<<"h","u","m","m","u","s">>, <<" ","H","o","m","m","o","s">>, <<"s","h","a","w","a","r","m","a">>, <<"s","h","a","w","a","r","m","a"," ","s","a","n","d","w","i","c","h">>, <<"k","o","s","h","a","r","i">>}

Countries == {None, <<"l","e","b","a","n","o","n">>, <<"S","y","r","i","a">>, <<"E","g","y","p","t">>}

\* Cosine similarities, in hundredths, the embedding model may give.
SimLevels == {30, 50, 90}

Sims(n) == [1..n -> SimLevels]

\* ---- actions ------------------------------------------------------------

\* DishesHandler.add_dish / DishesRepository.create: one more dish.
AddDish ==
    /\ pc = "idle"
    /\ Len(dishes) < MaxDishes
    /\ \E d \in DishPool : dishes' = Append(dishes, d)
    /\ UNCHANGED <<registry, foods, ingredients, pc, call, ret>>

\* ChatService._process_dish: dishes_handler.find_dish(dish_name, country).
FindDish ==
    /\ pc = "idle"
    /\ \E q \in DishQueries, c \in Countries, sim \in Sims(Len(dishes)) :
          /\ call' = [op |-> "find_dish", query |-> q, country |-> c, sim |-> sim]
          /\ ret' = find_dish(dishes, q, c, FuzzyThreshold, SemanticThreshold, sim)
    /\ pc' = "done"
    /\ UNCHANGED <<registry, dishes, foods, ingredients>>

\* DishesRepository.search_with_country_priority called with the query text.
SearchDish ==
    /\ pc = "idle"
    /\ \E q \in DishQueries, c \in Countries \ {None}, sim \in Sims(Len(dishes)) :
          /\ call' = [op |-> "search", query |-> q, country |-> c, sim |-> sim]
          /\ ret' = search_with_country_priority(dishes, sim, c, q,
                                                 ProcessDishThreshold, MinConfidence)
    /\ pc' = "done"
    /\ UNCHANGED <<registry, dishes, foods, ingredients>>

\* ChatServiceNew._process_dish: the search is given the embedding, the
\* country and threshold=0.85, and no query text.
ProcessDish ==
    /\ pc = "idle"
    /\ \E q \in DishQueries, c \in Countries \ {None}, sim \in Sims(Len(dishes)) :
          /\ call' = [op |-> "process_dish", query |-> q, country |-> c, sim |-> sim]
          /\ ret' = search_with_country_priority(dishes, sim, c, None,
                                                 ProcessDishThreshold, MinConfidence)
    /\ pc' = "done"
    /\ UNCHANGED <<registry, dishes, foods, ingredients>>

\* The response is sent; the next request may come. The ingredient list
\* is local to the request served.
Reply ==
    /\ pc = "done"
    /\ pc' = "idle"
    /\ call' = NoCall
    /\ ret' = NoCall
    /\ ingredients' = <<>>
    /\ UNCHANGED <<registry, dishes, foods>>

Init ==
    /\ dishes = <<>>
    /\ foods = <<>>
    /\ ingredients = <<>>
    /\ pc = "idle"
    /\ call = NoCall
    /\ ret = NoCall
    /\ registry = NoRegistry

NextDish == AddDish \/ FindDish \/ SearchDish \/ ProcessDish \/ Reply

SpecDish == Init /\ [][NextDish]_vars

\* ------------------------------------------------------------------------
\* The ingredient resolver as a state machine
\* ------------------------------------------------------------------------

MaxFoods == 2

Food(description, fdc_id, calories, carbs, protein, fat) ==
    [description |-> description, fdc_id |-> fdc_id, calories |-> calories,
     carbs |-> carbs, protein |-> protein, fat |-> fat]

FoodPool == {
    Food(<<"P","o","t","a","t","o","e","s",","," ","r","a","w">>, 1, 77, 17, 2, 0),
    Food(<<"P","o","t","a","t","o","e","s",","," ","f","r","e","n","c","h"," ","f","r","i","e","d",","," ","f","r","o","z","e","n",","," ","a","s"," ","p","u","r","c","h","a","s","e","d">>, 2, 150, 24, 2, 5),
    Food(<<"O","n","i","o","n",","," ","r","a","w",","," ","c","h","o","p","p","e","d">>, 3, 40, 9, 1, 0),
    Food(<<"O","n","i","o","n","s",","," ","r","e","d",","," ","r","a","w">>, 4, 44, 10, 1, 0),
    Food(<<" ","P","o","t","a","t","o",","," ","b","a","k","e","d">>, 5, 93, 21, 3, 0),
    Food(<<"P","o","t","a","t","o"," ","s","a","l","a","d">>, 6, 143, 11, 3, 8),
    Food(<<"p","o","t","a","t","o">>, 7, 70, 16, 2, 0) }

FoodQueries == {<<"p","o","t","a","t","o">>, <<"P","o","t","a","t","o"," ">>, <<"o","n","i","o","n",","," ","r","a","w">>, <<"p","o","t","a","t","o","s"," ","r","a","w">>, <<"t","a","h","i","n","i">>}

\* Weights in grams: multiples of 10, so that no nutrient lies halfway
\* between two tenths.
Weights == {50, 100}

\* The thresholds search_ingredient is called with (70 by default).
FuzzyFoodThresholds == {70, 50}

\* Cosine similarities, in hundredths, of a food to the query.
FoodSimLevels == {30, 45, 60}

FoodSims(n) == [1..n -> FoodSimLevels]

\* USDAHandler.load_data / the food table: one more food.
AddFood ==
    /\ pc = "idle"
    /\ Len(foods) < MaxFoods
    /\ \E f \in FoodPool : foods' = Append(foods, f)
    /\ UNCHANGED <<registry, dishes, ingredients, pc, call, ret>>

\* USDAHandler.search_ingredient(ingredient_name, threshold)
SearchIngredient ==
    /\ pc = "idle"
    /\ \E q \in FoodQueries, t \in FuzzyFoodThresholds :
          /\ call' = [op |-> "search_ingredient", name |-> q, threshold |-> t]
          /\ ret' = search_ingredient(foods, q, t)
    /\ pc' = "done"
    /\ UNCHANGED <<registry, dishes, foods, ingredients>>

\* IngredientManager.search_and_calculate(ingredient, db)
SearchAndCalculate ==
    /\ pc = "idle"
    /\ \E q \in FoodQueries, w \in Weights, sim \in FoodSims(Len(foods)) :
          /\ call' = [op |-> "search_and_calculate", name |-> q, weight_g |-> w,
                      sim |-> sim]
          /\ ret' = search_and_calculate(foods, IngredientBase(q, w), sim)
    /\ pc' = "done"
    /\ UNCHANGED <<registry, dishes, foods, ingredients>>

\* The weights nutrition is calculated for: weight_g is a float without a
\* bound (IngredientBase), so none, and less than none, are among them.
ScaleWeights == {-50, 0, 50}

\* nutrition_service.calculate_nutrition_by_weight(food.calories,
\* food.carbs, food.protein, food.fat, weight_g) for a food of the table.
\* The function has no raise statement and does not divide by the weight:
\* it returns a record for every weight.
CalculateNutritionByWeight ==
    /\ pc = "idle"
    /\ \E i \in DOMAIN foods, w \in ScaleWeights :
          /\ call' = [op |-> "calculate_nutrition_by_weight", food |-> i, weight_g |-> w]
          /\ ret' = [raised |-> "nothing",
                     nutrition |-> calculate_nutrition_by_weight(
                         foods[i].calories, foods[i].carbs, foods[i].protein,
                         foods[i].fat, w)]
    /\ pc' = "done"
    /\ UNCHANGED <<registry, dishes, foods, ingredients>>

NextFood ==
    AddFood \/ SearchIngredient \/ SearchAndCalculate \/ CalculateNutritionByWeight \/ Reply

SpecFood == Init /\ [][NextFood]_vars

\* ------------------------------------------------------------------------
\* The modification engine as a state machine
\* ------------------------------------------------------------------------

MaxIngredients == 3

Nutrition(calories, carbs, protein, fat) ==
    [calories |-> calories, carbs |-> carbs, protein |-> protein, fat |-> fat]

\* Resolved ingredients of a dish (nutrients in hundredths). The values are
\* such that rescaling to a weight of NewWeights gives no tie between two
\* tenths other than a quarter or three quarters of a tenth-pair (x.x25,
\* x.x75), which a double holds exactly.
IngredientPool == {
    IngredientWithNutrition(<<"P","o","t","a","t","o">>, 100, 7, Nutrition(7700, 1700, 200, 0)),
    IngredientWithNutrition(<<"T","o","m","a","t","o">>, 50, 8, Nutrition(900, 200, 50, 0)),
    IngredientWithNutrition(<<"P","o","t","a","t","o","e","s",","," ","f","r","e","n","c","h"," ","f","r","i","e","d">>, 150, 2, Nutrition(22500, 3600, 300, 750)),
    IngredientWithNutrition(<<"C","h","i","c","k","e","n",","," ","b","r","o","i","l","e","r","s"," ","o","r"," ","f","r","y","e","r","s",","," ","b","r","e","a","s","t">>, 120, 9,
                            Nutrition(19800, 0, 3720, 430)),
    IngredientWithNutrition(<<"T","o","m","a","t","o","e","s",","," ","g","r","a","p","e",","," ","r","a","w">>, 50, 10, Nutrition(1350, 300, 40, 20)),
    IngredientWithNutrition(<<"R","i","c","e">>, 100, 11, Nutrition(13000, 2800, 280, 40)),
    IngredientWithNutrition(<<"S","a","l","t",","," ","t","a","b","l","e">>, 0, 12, Nutrition(0, 0, 0, 0)) }

IngredientNames ==
    {<<"p","o","t","a","t","o">>, <<"f","r","i","e","s">>, <<" ","T","o","m","a","t","o","e","s">>, <<"f","r","e","n","c","h"," ","f","r","i","e","s">>, <<"c","h","i","c","k","e","n","s">>, <<"s","a","l","t">>, <<"r","i","c","e">>, <<>>}

\* The new_weight_g of an action: absent, or a number of grams.
NewWeights == {None, <<200>>, <<50>>, <<25>>, <<0>>, <<-50>>}

\* _process_dish: one more resolved ingredient of the dish.
BuildIngredient ==
    /\ pc = "idle"
    /\ Len(ingredients) < MaxIngredients
    /\ \E ing \in IngredientPool : ingredients' = Append(ingredients, ing)
    /\ UNCHANGED <<registry, dishes, foods, pc, call, ret>>

\* RecipeModifier._remove_ingredient(ingredients, ingredient_name); the
\* caller keeps the returned list.
RemoveIngredient ==
    /\ pc = "idle"
    /\ \E name \in IngredientNames :
          /\ call' = [op |-> "remove", ingredients |-> ingredients, ingredient |-> name]
          /\ ret' = remove_ingredient(ingredients, name)
          /\ ingredients' = remove_ingredient(ingredients, name)
    /\ pc' = "done"
    /\ UNCHANGED <<registry, dishes, foods>>

\* RecipeModifier._change_quantity(ingredients, ingredient_name,
\* new_weight_g); the caller keeps the returned list.
ChangeQuantity ==
    /\ pc = "idle"
    /\ \E name \in IngredientNames, w \in NewWeights :
          /\ call' = [op |-> "change_quantity", ingredients |-> ingredients,
                      ingredient |-> name, new_weight_g |-> w]
          /\ ret' = change_quantity(ingredients, name, w)
          /\ ingredients' = change_quantity(ingredients, name, w)
    /\ pc' = "done"
    /\ UNCHANGED <<registry, dishes, foods>>

NextMod == BuildIngredient \/ RemoveIngredient \/ ChangeQuantity \/ Reply

SpecMod == Init /\ [][NextMod]_vars

\* ------------------------------------------------------------------------
\* apply_modifications as a state machine
\* ------------------------------------------------------------------------

MaxModifications == 2

\* The food tables apply_modifications resolves the added names in.
FoodTables == {
    <<>>,
    <<Food(<<"P","o","t","a","t","o","e","s",","," ","r","a","w">>, 1, 77, 17, 2, 0), Food(<<"O","n","i","o","n",","," ","r","a","w",","," ","c","h","o","p","p","e","d">>, 3, 40, 9, 1, 0)>>,
    <<Food(<<"p","o","t","a","t","o">>, 7, 70, 16, 2, 0), Food(<<"P","o","t","a","t","o"," ","s","a","l","a","d">>, 6, 143, 11, 3, 8)>> }

\* The ingredient lists of the dishes modified.
IngredientLists == {
    <<>>,
    <<IngredientWithNutrition(<<"P","o","t","a","t","o">>, 100, 7, Nutrition(7700, 1700, 200, 0)),
      IngredientWithNutrition(<<"T","o","m","a","t","o">>, 50, 8, Nutrition(900, 200, 50, 0))>>,
    <<IngredientWithNutrition(<<"R","i","c","e">>, 100, 11, Nutrition(13000, 2800, 280, 40))>>,
    <<IngredientWithNutrition(<<"T","o","m","a","t","o">>, 50, 8, Nutrition(900, 200, 50, 0))>>,
    <<IngredientWithNutrition(<<"P","o","t","a","t","o","e","s",","," ","f","r","e","n","c","h"," ","f","r","i","e","d">>, 150, 2, Nutrition(22500, 3600, 300, 750)),
      IngredientWithNutrition(<<"C","h","i","c","k","e","n",","," ","b","r","o","i","l","e","r","s"," ","o","r"," ","f","r","y","e","r","s",","," ","b","r","e","a","s","t">>, 120, 9,
                              Nutrition(19800, 0, 3720, 430))>> }

\* The modifications of a request.
ModificationPool == {
    ModificationAction("remove", <<"p","o","t","a","t","o">>, None),
    ModificationAction("remove", <<"t","o","m","a","t","o">>, None),
    ModificationAction("add", <<"p","o","t","a","t","o">>, None),
    ModificationAction("add", <<"p","o","t","a","t","o">>, <<50>>),
    ModificationAction("add", <<"t","a","h","i","n","i">>, <<50>>),
    ModificationAction("add", <<"o","n","i","o","n",","," ","r","a","w">>, <<0>>),
    ModificationAction("add", <<"p","o","t","a","t","o">>, <<-50>>),
    ModificationAction("add", <<>>, <<50>>),
    ModificationAction("change_quantity", <<"p","o","t","a","t","o">>, <<200>>),
    ModificationAction("change_quantity", <<"p","o","t","a","t","o">>, <<-50>>),
    ModificationAction("change_quantity", <<"c","h","i","c","k","e","n">>, <<50>>),
    ModificationAction("change_quantity", <<"r","i","c","e">>, None) }

ModificationLists ==
    UNION {[1..n -> ModificationPool] : n \in 0..MaxModifications}

\* The food table is loaded.
LoadFoods ==
    /\ pc = "idle"
    /\ \E table \in FoodTables \ {foods} : foods' = table
    /\ UNCHANGED <<registry, dishes, ingredients, pc, call, ret>>

\* The ingredients of the dish of the request are at hand.
TakeIngredients ==
    /\ pc = "idle"
    /\ ingredients = <<>>
    /\ \E list \in IngredientLists \ {<<>>} : ingredients' = list
    /\ UNCHANGED <<registry, dishes, foods, pc, call, ret>>

\* await recipe_modifier.apply_modifications(ingredients, modifications,
\* db): ret is the list returned, ingredients the caller's list after the
\* call.
ApplyModifications ==
    /\ pc = "idle"
    /\ \E modifications \in ModificationLists, sim \in FoodSims(Len(foods)) :
          /\ call' = [op |-> "apply_modifications", ingredients |-> ingredients,
                      modifications |-> modifications, sim |-> sim]
          /\ ret' = apply_modifications(foods, sim, ingredients, modifications).result
          /\ ingredients' = apply_modifications(foods, sim, ingredients, modifications).caller
    /\ pc' = "done"
    /\ UNCHANGED <<registry, dishes, foods>>

NextApply == LoadFoods \/ TakeIngredients \/ ApplyModifications \/ Reply

SpecApply == Init /\ [][NextApply]_vars
\* ------------------------------------------------------------------------
\* The totals as a state machine
\* ------------------------------------------------------------------------

\* calorie_calculator.calculate_totals(ingredients)
CalculateTotals ==
    /\ pc = "idle"
    /\ call' = [op |-> "calculate_totals", ingredients |-> ingredients]
    /\ ret' = calculate_totals(ingredients)
    /\ pc' = "done"
    /\ UNCHANGED <<registry, dishes, foods, ingredients>>

\* nutrition_service.calculate_totals(ingredients)
RoundedTotals ==
    /\ pc = "idle"
    /\ call' = [op |-> "rounded_totals", ingredients |-> ingredients]
    /\ ret' = rounded_totals(ingredients)
    /\ pc' = "done"
    /\ UNCHANGED <<registry, dishes, foods, ingredients>>

NextTotals == BuildIngredient \/ CalculateTotals \/ RoundedTotals \/ Reply

SpecTotals == Init /\ [][NextTotals]_vars
\* ------------------------------------------------------------------------
\* The orchestrator as a state machine
\* ------------------------------------------------------------------------

\* ---- bounds and input pools -------------------------------------------

\* A dish row with its stored ingredients.
DishRow(name, country, ingredients_json) ==
    [name |-> name, country |-> country, ingredients |-> ingredients_json]

\* The dish tables served: the stored macros are floats of the data set
\* (hundredths here).
Menus == {
    <<>>,
    <<DishRow(<<"H","u","m","m","u","s">>, <<"L","e","b","a","n","o","n">>,
        <<[name |-> <<"C","h","i","c","k","p","e","a","s">>, weight_g |-> 100, usda_fdc_id |-> 20,
           calories |-> 16400, carbs |-> 2745, protein |-> 886, fat |-> 259],
          [name |-> <<"T","a","h","i","n","i">>, weight_g |-> 30,
           calories |-> 17850, carbs |-> 636, protein |-> 510]>>)>>,
    <<DishRow(<<"k","o","u","s","a"," ","m","a","h","s","h","i">>, <<"L","e","b","a","n","o","n">>,
        <<[name |-> <<"R","i","c","e">>, weight_g |-> 100, usda_fdc_id |-> 11,
           calories |-> 13000, carbs |-> 2800, protein |-> 280, fat |-> 40]>>),
      DishRow(<<"h","u","m","m","u","s">>, <<"S","y","r","i","a">>,
        <<[name |-> <<"C","h","i","c","k","p","e","a","s">>, weight_g |-> 50, usda_fdc_id |-> 20,
           calories |-> 8200, carbs |-> 1370, protein |-> 445, fat |-> 130],
          [name |-> <<"O","l","i","v","e"," ","o","i","l">>, weight_g |-> 10, usda_fdc_id |-> 21,
           calories |-> 8840, carbs |-> 0, protein |-> 0, fat |-> 1000],
          [name |-> <<"L","e","m","o","n"," ","j","u","i","c","e">>, weight_g |-> 15, usda_fdc_id |-> 22,
           calories |-> 330, carbs |-> 104, protein |-> 5, fat |-> 4]>>)>> }

ChatCountries == {<<"l","e","b","a","n","o","n">>, <<"E","g","y","p","t">>}

\* What the language model made of the message.
GPTResponses == {
    GPTAnalysisResponse(<<"h","u","m","m","u","s">>, FALSE, <<>>, <<>>),
    GPTAnalysisResponse(<<"h","u","m","m","u","s">>, FALSE, <<IngredientBase(<<"p","o","t","a","t","o">>, 100)>>, <<>>),
    GPTAnalysisResponse(<<"k","o","s","h","a","r","i">>, FALSE,
        <<IngredientBase(<<"t","a","h","i","n","i">>, 50), IngredientBase(<<"o","n","i","o","n",","," ","r","a","w">>, 100)>>, <<>>),
    GPTAnalysisResponse(<<"h","u","m","m","u","s">>, FALSE, <<IngredientBase(<<"p","o","t","a","t","o">>, 100)>>,
        <<ModificationAction("remove", <<"p","o","t","a","t","o">>, None)>>),
    GPTAnalysisResponse(<<"k","o","s","h","a","r","i">>, FALSE,
        <<IngredientBase(<<"p","o","t","a","t","o">>, 50), IngredientBase(<<"o","n","i","o","n",","," ","r","a","w">>, 50)>>,
        <<ModificationAction("add", <<"p","o","t","a","t","o">>, <<50>>),
          ModificationAction("change_quantity", <<"p","o","t","a","t","o">>, <<200>>)>>),
    GPTAnalysisResponse(<<"p","o","t","a","t","o">>, TRUE, <<IngredientBase(<<"p","o","t","a","t","o">>, 50)>>, <<>>),
    GPTAnalysisResponse(<<"t","a","h","i","n","i">>, TRUE, <<>>, <<>>) }

\* Cosine similarities, in hundredths, of the dishes and of the foods to
\* what is searched: on both sides of the thresholds.
ChatDishSims(n) == [1..n -> {30, 90}]

ChatFoodSims(n) == [1..n -> {30, 60}]

\* One similarity vector over the foods for each ingredient of a breakdown.
BreakdownSims(gpt_response, n) ==
    [1..Len(gpt_response.ingredients_breakdown) -> ChatFoodSims(n)]

\* ---- actions ------------------------------------------------------------

\* The dish table is loaded.
LoadMenu ==
    /\ pc = "idle"
    /\ \E menu \in Menus \ {dishes} : dishes' = menu
    /\ UNCHANGED <<registry, foods, ingredients, pc, call, ret>>

\* ChatServiceNew.process_message with a dish made out by the language
\* model: _process_dish.
ChatProcessDish ==
    /\ pc = "idle"
    /\ \E country \in ChatCountries, dish_sim \in ChatDishSims(Len(dishes)),
          gpt_response \in {g \in GPTResponses : ~g.is_single_ingredient} :
          \E sims \in BreakdownSims(gpt_response, Len(foods)) :
              /\ call' = [op |-> "_process_dish", country |-> country,
                          gpt_response |-> gpt_response, dish_sim |-> dish_sim,
                          sims |-> sims]
              /\ ret' = process_dish(dishes, foods, country, gpt_response,
                                     dish_sim, sims).ret
              /\ ingredients' = process_dish(dishes, foods, country, gpt_response,
                                             dish_sim, sims).ingredients
    /\ pc' = "done"
    /\ UNCHANGED <<registry, dishes, foods>>

\* ChatServiceNew.process_message with a single ingredient:
\* _process_single_ingredient.
ChatProcessSingleIngredient ==
    /\ pc = "idle"
    /\ \E gpt_response \in {g \in GPTResponses : g.is_single_ingredient} :
          \E sims \in BreakdownSims(gpt_response, Len(foods)) :
              /\ call' = [op |-> "_process_single_ingredient",
                          gpt_response |-> gpt_response, sims |-> sims]
              /\ ret' = process_single_ingredient(foods, gpt_response, sims).ret
              /\ ingredients' =
                     process_single_ingredient(foods, gpt_response, sims).ingredients
    /\ pc' = "done"
    /\ UNCHANGED <<registry, dishes, foods>>

\* ChatServiceNew.process_message without an answer of the language
\* model: _fallback_search.
ChatFallbackSearch ==
    /\ pc = "idle"
    /\ \E country \in ChatCountries, dish_sim \in ChatDishSims(Len(dishes)),
          food_sim \in ChatFoodSims(Len(foods)) :
          /\ call' = [op |-> "_fallback_search", country |-> country,
                      dish_sim |-> dish_sim, food_sim |-> food_sim]
          /\ ret' = fallback_search(dishes, foods, country, dish_sim, food_sim).ret
          /\ ingredients' =
                 fallback_search(dishes, foods, country, dish_sim, food_sim).ingredients
    /\ pc' = "done"
    /\ UNCHANGED <<registry, dishes, foods>>

\* ChatService.process_message with a dish: _process_dish.
LegacyProcessDish ==
    /\ pc = "idle"
    /\ \E country \in ChatCountries, dish_sim \in ChatDishSims(Len(dishes)),
          gpt_response \in {g \in GPTResponses : ~g.is_single_ingredient} :
          /\ call' = [op |-> "ChatService._process_dish", country |-> country,
                      gpt_response |-> gpt_response, dish_sim |-> dish_sim]
          /\ ret' = legacy_process_dish(dishes, country, gpt_response, dish_sim).ret
          /\ ingredients' =
                 legacy_process_dish(dishes, country, gpt_response, dish_sim).ingredients
    /\ pc' = "done"
    /\ UNCHANGED <<registry, dishes, foods>>

NextChat ==
    \/ LoadMenu
    \/ LoadFoods
    \/ ChatProcessDish
    \/ ChatProcessSingleIngredient
    \/ ChatFallbackSearch
    \/ LegacyProcessDish
    \/ Reply

SpecChat == Init /\ [][NextChat]_vars

\* ------------------------------------------------------------------------
\* Scaling as a state machine
\* ------------------------------------------------------------------------

\* Weights in grams of the parts of a portion: with them a nutrient of a
\* part lies on a tenth, between two tenths, or halfway between them.
PartWeights == {1, 3, 5, 15, 25, 130}

\* nutrition_service.calculate_nutrition_by_weight for a food of the table
\* and a weight, for the two parts of that weight, and for the same two
\* parts again.
ScaleByParts ==
    /\ pc = "idle"
    /\ \E i \in DOMAIN foods, w1 \in PartWeights, w2 \in PartWeights :
          /\ call' = [op |-> "scale_by_parts", food |-> i, w1 |-> w1, w2 |-> w2]
          /\ ret' = [whole |-> nutrition_by_weight(foods[i], w1 + w2),
                     first |-> nutrition_by_weight(foods[i], w1),
                     second |-> nutrition_by_weight(foods[i], w2)]
    /\ pc' = "done"
    /\ UNCHANGED <<registry, dishes, foods, ingredients>>

NextScale == AddFood \/ ScaleByParts \/ Reply

SpecScale == Init /\ [][NextScale]_vars

\* ------------------------------------------------------------------------
\* Partial-match rejection as a state machine
\* ------------------------------------------------------------------------

\* Names of dishes a query may be a part of: with extra words before or
\* after it, with letters joined to it, and with it inside another word.
PartialNames == {
    <<"s","h","a","w","a","r","m","a"," ","w","r","a","p">>, <<"s","h","a","w","a","r","m","a"," ","s","a","n","d","w","i","c","h">>, <<"s","h","a","w","a","r","m","a"," ","p","l","a","t","e">>, <<"s","h","a","w","a","r","m","a"," ","s","a","l","a","d">>,
    <<"S","h","a","w","a","r","m","a"," ","P","i","z","z","a">>, <<"s","h","a","w","a","r","m","a"," ","b","u","r","g","e","r">>, <<"c","h","i","c","k","e","n"," ","s","h","a","w","a","r","m","a">>,
    <<"k","e","b","a","b","s">>, <<"m","i","n","i"," ","k","e","b","a","b","s">>, <<"b","e","e","f"," ","k","e","b","a","b"," ","p","i","z","z","a">>, <<"k","e","b","a","b","-","p","l","a","t","e">>,
    <<"s","h","a","m","i"," ","h","a","m">>, <<"h","a","m"," ","s","h","a","m","i">>, <<"l","i","c","o","r","i","c","e"," ","r","i","c","e">>, <<"f","r","i","e","d"," ","r","i","c","e">> }

PartialQueries == {<<"s","h","a","w","a","r","m","a">>, <<" ","K","e","b","a","b">>, <<"h","a","m">>, <<"r","i","c","e">>}

\* DishesRepository.create: one more dish, named as in PartialNames.
AddNamedDish ==
    /\ pc = "idle"
    /\ Len(dishes) < MaxDishes
    /\ \E name \in PartialNames : dishes' = Append(dishes, Dish(name, <<"L","e","b","a","n","o","n">>))
    /\ UNCHANGED <<registry, foods, ingredients, pc, call, ret>>

\* DishesRepository._is_partial_match as the searches call it: on the
\* lowered, stripped query and the lowered name of a stored dish.
IsPartialMatch ==
    /\ pc = "idle"
    /\ \E q \in PartialQueries, i \in DOMAIN dishes :
          LET query_lower == strip(lower(q))
              dish_name_lower == lower(dishes[i].name)
          IN  /\ call' = [op |-> "_is_partial_match", query |-> query_lower,
                          dish_name |-> dish_name_lower]
              /\ ret' = is_partial_match(query_lower, dish_name_lower)
    /\ pc' = "done"
    /\ UNCHANGED <<registry, dishes, foods, ingredients>>

NextPartial == AddNamedDish \/ IsPartialMatch \/ Reply

SpecPartial == Init /\ [][NextPartial]_vars

\* ------------------------------------------------------------------------
\* The spelling-variation table against a store of one canonical dish
\* ------------------------------------------------------------------------

\* The canonical forms of the spelling-variation table.
CanonicalForms == {SPELLING_VARIATIONS[i][2] : i \in DOMAIN SPELLING_VARIATIONS}

\* The variants the table maps to the canonical form c.
VariantsOf(c) ==
    {SPELLING_VARIATIONS[i][1] : i \in {j \in DOMAIN SPELLING_VARIATIONS :
                                            SPELLING_VARIATIONS[j][2] = c}}

upperChar(c) ==
    IF \E i \in 1..Len(LowerChars) : LowerChars[i] = c
    THEN UpperChars[CHOOSE i \in 1..Len(LowerChars) : LowerChars[i] = c]
    ELSE c

\* The name as a menu writes it: "Hummus".
capitalized(s) == [i \in 1..Len(s) |-> IF i = 1 THEN upperChar(s[i]) ELSE s[i]]

\* DishesHandler.load_data: the store becomes the one dish of the sheet,
\* named by a canonical form.
LoadCanonical ==
    /\ pc = "idle"
    /\ \E c \in CanonicalForms :
          \E name \in {c, capitalized(c)} : dishes' = <<Dish(name, <<"L","e","b","a","n","o","n">>)>>
    /\ UNCHANGED <<registry, foods, ingredients, pc, call, ret>>

\* find_dish(v) for a variant v of the stored dish's name.
FindVariant ==
    /\ pc = "idle"
    /\ dishes # <<>>
    /\ \E v \in VariantsOf(strip(lower(dishes[1].name))),
          c \in {None, <<"l","e","b","a","n","o","n">>}, sim \in Sims(1) :
          /\ call' = [op |-> "find_dish", query |-> v, country |-> c, sim |-> sim]
          /\ ret' = find_dish(dishes, v, c, FuzzyThreshold, SemanticThreshold, sim)
    /\ pc' = "done"
    /\ UNCHANGED <<registry, dishes, foods, ingredients>>

NextSpelling == LoadCanonical \/ FindVariant \/ Reply

SpecSpelling == Init /\ [][NextSpelling]_vars

\* ------------------------------------------------------------------------
\* The choice among several candidates of one strategy, as a state machine
\* ------------------------------------------------------------------------

\* Descriptions that share their beginning or their first part: plain
\* forms, forms with a modifier word, salads, juices, and descriptions
\* that begin with a blank.
DescribedFoods == {
    Food(<<"P","o","t","a","t","o"," ","s","a","l","a","d">>, 11, 143, 11, 3, 8),
    Food(<<"P","o","t","a","t","o","e","s",","," ","r","a","w">>, 12, 77, 17, 2, 0),
    Food(<<"P","o","t","a","t","o","e","s",","," ","b","a","k","e","d",","," ","f","l","e","s","h">>, 13, 93, 21, 3, 0),
    Food(<<"P","o","t","a","t","o",","," ","y","e","l","l","o","w">>, 14, 70, 16, 2, 0),
    Food(<<"A","p","p","l","e","s",","," ","j","u","i","c","e",","," ","r","a","w">>, 15, 46, 11, 0, 0),
    Food(<<"A","p","p","l","e","s",","," ","r","a","w",","," ","w","i","t","h"," ","s","k","i","n">>, 16, 52, 14, 0, 0),
    Food(<<" ","P","e","a","r",","," ","j","u","i","c","e",","," ","r","a","w">>, 17, 60, 16, 0, 0),
    Food(<<" ","P","e","a","r","s",","," ","d","r","i","e","d">>, 18, 262, 70, 2, 1) }

DescribedQueries == {<<"p","o","t","a","t","o">>, <<"A","p","p","l","e",","," ","r","a","w">>, <<"p","e","a","r">>, <<"a","p","p","l","e">>}

\* search_ingredient(self, ingredient_name, threshold=70)
DefaultFuzzyFoodThreshold == 70

\* USDAHandler.load_data: one more food of DescribedFoods in all_foods.
AddDescribedFood ==
    /\ pc = "idle"
    /\ Len(foods) < MaxFoods
    /\ \E f \in DescribedFoods : foods' = Append(foods, f)
    /\ UNCHANGED <<registry, dishes, ingredients, pc, call, ret>>

\* USDAHandler.search_ingredient(ingredient_name) with its default
\* threshold.
SearchDescribed ==
    /\ pc = "idle"
    /\ \E q \in DescribedQueries :
          /\ call' = [op |-> "search_ingredient", name |-> q,
                      threshold |-> DefaultFuzzyFoodThreshold]
          /\ ret' = search_ingredient(foods, q, DefaultFuzzyFoodThreshold)
    /\ pc' = "done"
    /\ UNCHANGED <<registry, dishes, foods, ingredients>>

NextSelect == AddDescribedFood \/ SearchDescribed \/ Reply

SpecSelect == Init /\ [][NextSelect]_vars

\* ------------------------------------------------------------------------
\* The registry of missing dishes as a state machine: chat requests that
\* fall back to the breakdown of the language model register the dish,
\* each in its own session, and every await of add_or_update lets the
\* other requests run.
\* ------------------------------------------------------------------------

RegistryNames == {<<"K","o","s","h","a","r","i">>, <<"k","o","s","h","a","r","i">>, <<"F","a","t","t","e","h">>}

RegistryCountries == {<<"e","g","y","p","t">>}

\* ChatServiceNew._process_dish calls add_or_update(dish_name, ...,
\* country, ...), which awaits get_by_name_and_country: the SELECT sees
\* the rows committed so far (the sessions of the other requests have
\* their writes of their own until they commit).
SelectExisting ==
    /\ Len(registry.registered) < MaxRegistrations
    /\ \E s \in Sessions, dish_name \in RegistryNames, country \in RegistryCountries :
          /\ registry.sessions[s].pc = "closed"
          /\ registry' = [registry EXCEPT
                 !.sessions[s] = SelectedSession(dish_name, country, registry.missing_dishes,
                     scalar_one_or_none(
                         matching_rows(registry.missing_dishes, dish_name, country))),
                 !.registered = Append(@, <<dish_name, country>>),
                 !.overlapped = @ \/ \E t \in Sessions \ {s} :
                                        registry.sessions[t].pc # "closed"]
    /\ UNCHANGED <<dishes, foods, ingredients, pc, call, ret>>

\* add_or_update after the SELECT, up to await self.db.flush(): the
\* UPDATE of the row read, or the INSERT of a new row. An UPDATE waits
\* while another session holds an uncommitted UPDATE of the same row.
FlushRegistration ==
    /\ \E s \in Sessions :
          /\ registry.sessions[s].pc = "selected"
          /\ \A t \in Sessions \ {s} :
                 ~(/\ registry.sessions[t].pc = "flushed"
                   /\ registry.sessions[t].write.kind = "update"
                   /\ registry.sessions[t].write.row = registry.sessions[s].existing)
          /\ registry' = [registry EXCEPT !.sessions[s] =
                 [pc |-> "flushed",
                  dish_name |-> registry.sessions[s].dish_name,
                  country |-> registry.sessions[s].country,
                  write |-> flushed_write(registry.sessions[s])]]
    /\ UNCHANGED <<dishes, foods, ingredients, pc, call, ret>>

\* get_db after the request: await session.commit(). A request whose
\* registration raised (the exception is caught and logged in
\* _process_dish) commits nothing for it.
CommitSession ==
    /\ \E s \in Sessions :
          /\ registry.sessions[s].pc \in {"flushed", "failed"}
          /\ registry' = [registry EXCEPT
                 !.missing_dishes = committed(@, registry.sessions[s]),
                 !.sessions[s] = ClosedSession]
    /\ UNCHANGED <<dishes, foods, ingredients, pc, call, ret>>

NextRegistry == SelectExisting \/ FlushRegistration \/ CommitSession

SpecRegistry == Init /\ [][NextRegistry]_vars

\* ------------------------------------------------------------------------
\* Properties of the dish matcher (under SpecDish)
\* ------------------------------------------------------------------------

\* The lower-cased, trimmed form of a name or a query.
normalized(s) == strip(lower(s))

\* A request of one of the three entry points of the dish matcher was served.
DishServed == pc = "done" /\ call.op \in {"find_dish", "search", "process_dish"}

\* The dishes of the store that are of the given country.
OfCountry(country) ==
    {i \in DOMAIN dishes : lower(strip(dishes[i].country)) = lower(country)}

\* The dishes find_dish chooses from: those of the country, or the whole
\* store when no country is given or the country has no dish.
CandidateSet(country) ==
    IF country = None \/ OfCountry(country) = {} THEN DOMAIN dishes ELSE OfCountry(country)

\* The dishes whose normalized name is the normalized query.
ExactNamed(query) == {i \in DOMAIN dishes : normalized(dishes[i].name) = normalized(query)}

Least(S) == CHOOSE i \in S : \A j \in S : i <= j

SignificantExtras == significant_food_words \ acceptable_additions

\* C2: a query q never resolves to a dish whose name is q followed by a
\* significant food word ("shawarma" never returns "shawarma pizza"),
\* through any strategy.
C2_NoSignificantExtension ==
    (DishServed /\ ret.dish # 0)
        => \A w \in SignificantExtras :
               normalized(dishes[ret.dish].name) # normalized(call.query) \o <<" ">> \o w

\* C3: no returned dish is a partial match of the query text, whichever
\* entry point served the request.
C3_ReturnedPassedPartialCheck ==
    (DishServed /\ ret.dish # 0)
        => ~is_partial_match(normalized(call.query), lower(dishes[ret.dish].name))

\* The store restricted to the dishes outside the given country, and the
\* similarities of those dishes.
Others(country) == SelectSeq([i \in DOMAIN dishes |-> i], LAMBDA i : i \notin OfCountry(country))

\* C4 for find_dish: with a country given, no match is reported only when
\* the pipeline run over the dishes of the other countries accepts none.
C4_FallsBackToOtherCountries ==
    (pc = "done" /\ call.op = "find_dish" /\ call.country # None /\ ret.dish = 0)
        => find_dish([k \in DOMAIN Others(call.country) |-> dishes[Others(call.country)[k]]],
                     call.query, None, FuzzyThreshold, SemanticThreshold,
                     [k \in DOMAIN Others(call.country) |-> call.sim[Others(call.country)[k]]]).dish = 0

\* The step-2 score of the returned dish against the query.
ReturnedKeywordScore ==
    calculate_match_score(extract_key_words(normalized(call.query)),
                          extract_key_words(normalized(dishes[ret.dish].name)))

\* The dish was returned on the strength of embedding similarity.
BySimilarity ==
    \/ (call.op = "find_dish" /\ ret.step = "semantic")
    \/ (call.op \in {"search", "process_dish"}
        /\ ret.phase \in {"phase1", "phase2", "phase4", "phase5"})

\* C6: a dish returned on the strength of embedding similarity has a
\* keyword score of at least 0.5 against the query.
C6_SimilarityNeedsKeywords ==
    (DishServed /\ ret.dish # 0 /\ BySimilarity)
        => FracGE(ReturnedKeywordScore, Frac(1, 2))

\* The step-2 scores of the choices of the find_dish call.
ChoiceScore(i) ==
    calculate_match_score(extract_key_words(normalized(call.query)),
                          extract_key_words(normalized(dishes[i].name)))

TopChoices ==
    {i \in CandidateSet(call.country) :
        \A j \in CandidateSet(call.country) : FracGE(ChoiceScore(i), ChoiceScore(j))}

\* Another candidate has a positive score within 0.1 of the score of i.
HasCloseRival(i) ==
    \E j \in CandidateSet(call.country) \ {i} :
        /\ ChoiceScore(j).num > 0
        /\ ChoiceScore(j).num * 10 * ChoiceScore(i).den
               >= (10 * ChoiceScore(i).num - ChoiceScore(i).den) * ChoiceScore(j).den

\* C7: when no candidate has the exact name, the keyword step accepts the
\* top-scoring candidate if and only if its score is at least 0.9, or at
\* least 0.75 with no other candidate within 0.1 of it.
C7_KeywordAcceptance ==
    (pc = "done" /\ call.op = "find_dish" /\ dishes # <<>>
            /\ ExactNamed(call.query) \cap CandidateSet(call.country) = {})
        => /\ ret.step \in {"keyword_high", "keyword_unique"}
               <=> \E i \in TopChoices :
                       \/ FracGE(ChoiceScore(i), Frac(9, 10))
                       \/ (FracGE(ChoiceScore(i), Frac(3, 4)) /\ ~HasCloseRival(i))
           /\ ret.step \in {"keyword_high", "keyword_unique"} => ret.dish \in TopChoices

\* ------------------------------------------------------------------------
\* Properties of the ingredient resolver (under SpecFood)
\* ------------------------------------------------------------------------

IngredientSearched == pc = "done" /\ call.op = "search_ingredient"

\* The foods with a description, and the candidates of each structural
\* strategy for the normalized name of the call.
Described == {i \in DOMAIN foods : foods[i].description # <<>>}

ExactFoods == {i \in Described : lower(foods[i].description) = normalized(call.name)}

PrefixFoods ==
    {i \in Described : startswith(lower(foods[i].description), normalized(call.name))}

ContainsFoods ==
    {i \in Described :
        LET first_part == strip(splitSep(lower(foods[i].description), ",")[1])
            search_parts == comma_parts(normalized(call.name))
        IN  /\ first_part \in {search_parts[1], search_parts[1] \o <<"s">>}
            /\ \A k \in DOMAIN search_parts :
                   contains(lower(foods[i].description), search_parts[k])}

\* The store holds the two potato entries, in some order.
PotatoStore ==
    /\ Len(foods) = 2
    /\ {foods[1].description, foods[2].description}
           = {<<"P","o","t","a","t","o","e","s",","," ","r","a","w">>, <<"P","o","t","a","t","o","e","s",","," ","f","r","e","n","c","h"," ","f","r","i","e","d",","," ","f","r","o","z","e","n",","," ","a","s"," ","p","u","r","c","h","a","s","e","d">>}

\* C8: search_ingredient returns the candidate of the first strategy, in
\* the order exact, prefix, contains, fuzzy, that has a candidate; and
\* "potato" resolves to "Potatoes, raw" in the store of the two potato
\* entries.
C8_CascadeOrder ==
    IngredientSearched =>
        /\ ExactFoods # {} => (ret.step = "exact" /\ ret.food \in ExactFoods)
        /\ (ExactFoods = {} /\ PrefixFoods # {})
               => (ret.step = "prefix" /\ ret.food \in PrefixFoods)
        /\ (ExactFoods = {} /\ PrefixFoods = {} /\ ContainsFoods # {})
               => (ret.step = "contains" /\ ret.food \in ContainsFoods)
        /\ (ExactFoods = {} /\ PrefixFoods = {} /\ ContainsFoods = {})
               => ret.step \in {"fuzzy", "none"}
        /\ (PotatoStore /\ normalized(call.name) = <<"p","o","t","a","t","o">>)
               => (ret.food # 0 /\ foods[ret.food].description = <<"P","o","t","a","t","o","e","s",","," ","r","a","w">>)

\* C8's case: "potato" was searched in the store of the two potato entries
\* and the prefix strategy returned a food.
C8_Witness ==
    /\ IngredientSearched /\ PotatoStore
    /\ normalized(call.name) = <<"p","o","t","a","t","o">>
    /\ ret.step = "prefix"

\* The best token_sort_ratio of the name against the descriptions is below
\* the threshold of the call.
FuzzyBelowThreshold ==
    \A i \in Described :
        ~FracGE(token_sort_ratio(normalized(call.name), lower(foods[i].description)),
                Frac(call.threshold, 100))

\* C9: when no structural strategy has a candidate and the best similarity
\* is below the threshold the caller configured, the resolver returns
\* NotFound: by search_ingredient (token_sort_ratio against its threshold)
\* and by search_and_calculate (cosine similarity against its threshold of
\* 0.5, the structural candidates being the text matches).
C9_BelowThresholdNotFound ==
    /\ (IngredientSearched /\ ExactFoods = {} /\ PrefixFoods = {} /\ ContainsFoods = {}
            /\ FuzzyBelowThreshold)
        => ret.food = 0
    /\ (pc = "done" /\ call.op = "search_and_calculate"
            /\ search_by_text(foods, call.name, TextLimit) = <<>>
            /\ \A i \in DOMAIN foods : call.sim[i] < SearchAndCalculateThreshold)
        => ret.food = 0

\* The half of C9 that is about search_ingredient.
C9_FuzzyBelowThresholdNotFound ==
    (IngredientSearched /\ ExactFoods = {} /\ PrefixFoods = {} /\ ContainsFoods = {}
        /\ FuzzyBelowThreshold)
        => ret.food = 0


\* C18: scaling the per-100 g macros of a food to a weight fails with
\* InvalidWeight whenever the weight is zero or negative; no nutrition
\* record is returned for such a weight.
C18_NonPositiveWeightFails ==
    (pc = "done" /\ call.op = "calculate_nutrition_by_weight" /\ call.weight_g <= 0)
        => ret.raised = "InvalidWeight"
\* ------------------------------------------------------------------------
\* Properties of the modification engine (under SpecMod)
\* ------------------------------------------------------------------------

Removed == pc = "done" /\ call.op = "remove"

\* The names of the ingredients of a list, in order.
NamesOf(list) == [k \in DOMAIN list |-> list[k].name]

\* The match rule between a target name and an ingredient name: both names
\* are given, and the core names are equal, or a core name occurs in the
\* other full lower-case name, or a full lower-case name occurs in the other.
MatchRule(target, name) ==
    /\ target # <<>> /\ name # <<>>
    /\ \/ extract_core_ingredient(target) = extract_core_ingredient(name)
       \/ contains(strip(lower(name)), extract_core_ingredient(target))
       \/ contains(strip(lower(target)), extract_core_ingredient(name))
       \/ contains(strip(lower(name)), strip(lower(target)))
       \/ contains(strip(lower(target)), strip(lower(name)))

\* C10: after remove(name) the list is exactly the subsequence of the input
\* made of the ingredients that do not match name, in their order and with
\* their fields; [Potato, Tomato] with remove("potato") yields [Tomato],
\* and remove("fries") removes "Potatoes, french fried".
C10_RemoveIsNameScoped ==
    Removed =>
        /\ ret = SelectSeq(call.ingredients,
                           LAMBDA ing : ~MatchRule(call.ingredient, ing.name))
        /\ ingredients = ret
        /\ (call.ingredient = <<"p","o","t","a","t","o">> /\ NamesOf(call.ingredients) = <<<<"P","o","t","a","t","o">>, <<"T","o","m","a","t","o">>>>)
               => NamesOf(ret) = <<<<"T","o","m","a","t","o">>>>
        /\ call.ingredient = <<"f","r","i","e","s">>
               => \A k \in DOMAIN ret : ret[k].name # <<"P","o","t","a","t","o","e","s",","," ","f","r","e","n","c","h"," ","f","r","i","e","d">>

\* C10's case: remove("fries") took "Potatoes, french fried" (twice) out of
\* a list and kept the ingredient between them.
C10_Witness ==
    /\ Removed /\ call.ingredient = <<"f","r","i","e","s">>
    /\ NamesOf(call.ingredients)
           = <<<<"P","o","t","a","t","o","e","s",","," ","f","r","e","n","c","h"," ","f","r","i","e","d">>, <<"T","o","m","a","t","o">>, <<"P","o","t","a","t","o","e","s",","," ","f","r","e","n","c","h"," ","f","r","i","e","d">>>>
    /\ NamesOf(ret) = <<<<"T","o","m","a","t","o">>>>

\* A change_quantity request was served.
Changed == pc = "done" /\ call.op = "change_quantity"

\* new is value * w / old_weight rounded to one decimal: a tenth nearest to
\* it (0 when the old weight is not positive). The values are in
\* hundredths.
RescaledTo(new, value, old_weight, w) ==
    IF old_weight > 0
    THEN /\ new % 10 = 0
         /\ 2 * (new * old_weight - value * w) <= 10 * old_weight
         /\ 2 * (value * w - new * old_weight) <= 10 * old_weight
    ELSE new = 0

\* What C11 says of the k-th ingredient after change_quantity(name, w).
ChangedAsStated(k, w) ==
    IF MatchRule(call.ingredient, call.ingredients[k].name)
    THEN /\ ret[k].weight_g = w
         /\ ret[k].name = call.ingredients[k].name
         /\ \A f \in {"calories", "carbs", "protein", "fat"} :
                RescaledTo(ret[k][f], call.ingredients[k][f],
                           call.ingredients[k].weight_g, w)
    ELSE ret[k] = call.ingredients[k]

\* C11 as stated: after change_quantity(name, w), for every w, each
\* matching ingredient has weight w and each macro rescaled by w over the
\* old weight, and each other ingredient is unchanged in place.
C11_ChangeQuantityAnyWeight ==
    (Changed /\ call.new_weight_g # None)
        => /\ Len(ret) = Len(call.ingredients)
           /\ \A k \in DOMAIN ret : ChangedAsStated(k, call.new_weight_g[1])

\* C11, amended: for a weight w other than 0, after change_quantity(name, w)
\* each matching ingredient has weight w and each macro equal to
\* old_macro * w / old_weight rounded to one decimal (0 when the old weight
\* is not positive) and each other ingredient is unchanged in place; with
\* w absent or 0 the list is returned unchanged. {Rice, 100 g, 130 kcal}
\* with change_quantity("rice", 200) yields 260 kcal.
C11_ChangeQuantityRescales ==
    Changed =>
        /\ Len(ret) = Len(call.ingredients)
        /\ ingredients = ret
        /\ IF call.new_weight_g \in {None, <<0>>}
           THEN ret = call.ingredients
           ELSE \A k \in DOMAIN ret : ChangedAsStated(k, call.new_weight_g[1])
        /\ (call.ingredient = <<"r","i","c","e">> /\ call.new_weight_g = <<200>>)
               => \A k \in DOMAIN ret :
                      (call.ingredients[k].name = <<"R","i","c","e">>
                       /\ call.ingredients[k].weight_g = 100
                       /\ call.ingredients[k].calories = 13000)
                          => ret[k].calories = 26000

\* C11's case: change_quantity("rice", 200) doubled the rice of a list and
\* left the ingredient before it as it was.
C11_Witness ==
    /\ Changed /\ call.ingredient = <<"r","i","c","e">> /\ call.new_weight_g = <<200>>
    /\ NamesOf(call.ingredients) = <<<<"T","o","m","a","t","o">>, <<"R","i","c","e">>>>
    /\ ret[1] = call.ingredients[1]
    /\ ret[2].weight_g = 200 /\ ret[2].calories = 26000 /\ ret[2].carbs = 5600

\* ------------------------------------------------------------------------
\* Properties of apply_modifications (under SpecApply)
\* ------------------------------------------------------------------------

Applied == pc = "done" /\ call.op = "apply_modifications"

\* The call applied one modification, an add that names an ingredient.
OneAdd ==
    /\ Applied /\ Len(call.modifications) = 1
    /\ call.modifications[1].action = "add"
    /\ call.modifications[1].ingredient # <<>>

\* What the resolver returns for the name and the weight of the add (30 g
\* when the weight is absent).
AddResolved ==
    search_and_calculate(foods,
        IngredientBase(call.modifications[1].ingredient,
                       IF call.modifications[1].new_weight_g = None THEN 30
                       ELSE call.modifications[1].new_weight_g[1]),
        call.sim)

\* C12: for any ingredient list, an add(name, new_weight_g) returns the
\* list with the ingredient the resolver finds for name at new_weight_g
\* (30 g when absent) appended at the end, and the list unchanged when the
\* resolver finds none.
C12_AddAppendsResolved ==
    OneAdd =>
        IF AddResolved.food # 0
        THEN ret = Append(call.ingredients, AddResolved.ingredient)
        ELSE ret = call.ingredients

\* The same for a list that has an ingredient.
C12_AddToNonEmptyList ==
    (OneAdd /\ call.ingredients # <<>>) =>
        IF AddResolved.food # 0
        THEN ret = Append(call.ingredients, AddResolved.ingredient)
        ELSE ret = call.ingredients

\* C13: applying an empty modification list to any ingredient list returns
\* a list with the same elements in the same order as the input.
C13_NoModificationsNoChange ==
    (Applied /\ call.modifications = <<>>) => ret = call.ingredients

\* C13's case: no modification was applied to the list [Potato, Tomato],
\* which came back.
C13_Witness ==
    /\ Applied /\ call.modifications = <<>>
    /\ NamesOf(call.ingredients) = <<<<"P","o","t","a","t","o">>, <<"T","o","m","a","t","o">>>>
    /\ ret = call.ingredients

\* C14: apply_modifications does not change its input: after the call,
\* whatever the removes, adds and changes of quantity applied, the caller's
\* list has the length, the elements and the order it had, every element
\* with its name, weight and macros.
C14_CallerListUntouched ==
    Applied => ingredients = call.ingredients

\* C14's case: an add appended an ingredient and a change of quantity
\* rescaled another in the list returned, and the caller's list [Potato,
\* Tomato] is as it was.
C14_Witness ==
    /\ Applied
    /\ call.modifications = <<ModificationAction("add", <<"p","o","t","a","t","o">>, <<50>>),
                              ModificationAction("change_quantity", <<"p","o","t","a","t","o">>, <<200>>)>>
    /\ NamesOf(call.ingredients) = <<<<"P","o","t","a","t","o">>, <<"T","o","m","a","t","o">>>>
    /\ Len(ret) = 3 /\ ret[1].weight_g = 200 /\ ret[3].weight_g = 200
    /\ ingredients = call.ingredients /\ ingredients[1].weight_g = 100

\* Every ingredient of the list has a positive weight and no negative
\* macro.
WellFormed(list) ==
    \A k \in DOMAIN list :
        /\ list[k].weight_g > 0
        /\ list[k].calories >= 0 /\ list[k].carbs >= 0
        /\ list[k].protein >= 0 /\ list[k].fat >= 0

\* C19: when every ingredient of the input list has a positive weight and
\* no negative macro, so has every ingredient of the list returned, after
\* any sequence of add, remove and change_quantity actions with any
\* new_weight_g the schema of the action admits.
C19_WeightsStayPositive ==
    (Applied /\ WellFormed(call.ingredients)) => WellFormed(ret)
\* ------------------------------------------------------------------------
\* Properties of the totals (under SpecTotals)
\* ------------------------------------------------------------------------

Macros == {"calories", "carbs", "protein", "fat"}

\* The sum of a macro over a list, in hundredths.
RECURSIVE ExactSum(_, _)
ExactSum(list, f) ==
    IF list = <<>> THEN 0 ELSE list[1][f] + ExactSum(Tail(list), f)

\* The lists with the elements of list in another order.
Reordered(list) ==
    {[k \in DOMAIN list |-> list[p[k]]] :
        p \in {q \in [DOMAIN list -> DOMAIN list] :
                  \A i, j \in DOMAIN list : q[i] = q[j] => i = j}}

\* C20: the totals of the empty list are all zero; the totals of a list
\* are the element-wise sums of its macros (the float of a total is that
\* of the sum, to the decimal the macros have), and they are the same for
\* every order of the list.
C20_TotalsAreOrderFreeSums ==
    (pc = "done" /\ call.op = "calculate_totals") =>
        /\ call.ingredients = <<>> => ret = NutritionTotals(Zero64, Zero64, Zero64, Zero64)
        /\ \A f \in Macros : 10 * round_float(ret[f]) = ExactSum(call.ingredients, f)
        /\ \A list \in Reordered(call.ingredients) : calculate_totals(list) = ret

\* The same of the totals NutritionService rounds to one decimal, for
\* ingredients whose macros have one decimal.
C20_RoundedTotalsAreOrderFreeSums ==
    (pc = "done" /\ call.op = "rounded_totals") =>
        /\ call.ingredients = <<>> => ret = NutritionTotals(0, 0, 0, 0)
        /\ \A f \in Macros : 10 * ret[f] = ExactSum(call.ingredients, f)
        /\ \A list \in Reordered(call.ingredients) : rounded_totals(list) = ret
\* ------------------------------------------------------------------------
\* The orchestrator: claims C15, C16, C17
\* ------------------------------------------------------------------------

\* A handler of one of the two services has returned a response.
Responded ==
    /\ pc = "done"
    /\ call.op \in {"_process_dish", "_process_single_ingredient",
                    "_fallback_search", "ChatService._process_dish"}
    /\ ret.outcome = "response"

\* A total of the response to one decimal, in tenths: ChatServiceNew
\* returns it so, the float of ChatService is rounded here.
total_tenths(f) ==
    IF call.op = "ChatService._process_dish" THEN round_float(ret.totals[f])
    ELSE ret.totals[f]

\* t tenths is a tenth nearest to s hundredths.
NearestTenth(t, s) == 2 * (10 * t - s) <= 10 /\ 2 * (s - 10 * t) <= 10

NoMatchWithBreakdown ==
    /\ pc = "done"
    /\ call.op \in {"_process_dish", "ChatService._process_dish"}
    /\ call.gpt_response.ingredients_breakdown # <<>>
    /\ IF call.op = "_process_dish"
       THEN search_with_country_priority(dishes, call.dish_sim, call.country, <<>>,
                                         ProcessDishThreshold, MinConfidence).dish = 0
       ELSE find_dish(dishes, call.gpt_response.dish_name, call.country,
                      FuzzyThreshold, SemanticThreshold, call.dish_sim).dish = 0

\* The places of the breakdown whose ingredient the food search of
\* ChatServiceNew finds.
FoundPlaces ==
    {k \in DOMAIN call.gpt_response.ingredients_breakdown :
        usda_search(foods, call.sims[k], DefaultSimilarityThreshold).food # 0}

\* list is the breakdown with every found ingredient replaced by its
\* record and the others dropped, in the order of the breakdown.
FoundInOrder(list) ==
    /\ Len(list) = Cardinality(FoundPlaces)
    /\ \A j \in DOMAIN list :
           LET k == CHOOSE i \in FoundPlaces :
                        Cardinality({h \in FoundPlaces : h <= i}) = j
           IN  list[j] = resolved_ingredient(foods,
                             call.gpt_response.ingredients_breakdown[k],
                             usda_search(foods, call.sims[k],
                                         DefaultSimilarityThreshold)).ingredient

\* C16: when the dish matcher reports NoMatch and the breakdown is not
\* empty, the ingredient list before modifications is the breakdown with
\* each ingredient replaced by its resolved record and the ingredients not
\* found dropped, in the breakdown's order, and the request does not fail
\* over an ingredient: without modifications it ends in a response.
C16_BreakdownResolvedInOrder ==
    NoMatchWithBreakdown =>
        /\ call.gpt_response.modifications = <<>> => ret.outcome = "response"
        /\ call.op = "_process_dish" => FoundInOrder(ingredients)

\* The part of C16 that ChatServiceNew keeps: its list is the found
\* ingredients in order, and without modifications the response carries it.
C16_NewServiceResolvesInOrder ==
    NoMatchWithBreakdown /\ call.op = "_process_dish" =>
        /\ FoundInOrder(ingredients)
        /\ call.gpt_response.modifications = <<>>
               => ret.outcome = "response" /\ ret.ingredients = ingredients

\* A dish request with modifications whose ingredient list was resolved:
\* from the stored dish, or by ChatServiceNew from the breakdown.
ResolvedWithModifications ==
    /\ pc = "done"
    /\ call.op \in {"_process_dish", "ChatService._process_dish"}
    /\ call.gpt_response.modifications # <<>>
    /\ NoMatchWithBreakdown => call.op = "_process_dish"

\* C17: a dish request that carries modifications ends in a response
\* whose ingredient list is what apply_modifications makes of the resolved
\* list.
C17_ModificationsApplied ==
    ResolvedWithModifications =>
        /\ ret.outcome = "response"
        /\ \E sim \in FoodSims(Len(foods)) :
               ret.ingredients = apply_modifications(foods, sim, ingredients,
                                     call.gpt_response.modifications).result

\* What happens instead: every dish request with modifications ends in
\* TypeError.
C17_ModificationsRaise ==
    ResolvedWithModifications => ret.outcome = "TypeError"

\* ------------------------------------------------------------------------
\* Properties of scaling (under SpecScale)
\* ------------------------------------------------------------------------

ScaledByParts == pc = "done" /\ call.op = "scale_by_parts"

\* How far, in tenths, a macro of the whole weight is from the sum of the
\* same macro of the two parts.
PartsGap(f) ==
    IF ret.whole[f] >= ret.first[f] + ret.second[f]
    THEN ret.whole[f] - (ret.first[f] + ret.second[f])
    ELSE (ret.first[f] + ret.second[f]) - ret.whole[f]

\* C21: for every food and weights w1, w2 > 0, each macro of the food
\* scaled to w1 + w2 differs from the sum of the same macro scaled to w1
\* and scaled to w2 by at most 0.1 (the macros being the one-decimal
\* numbers the function returns).
C21_ScalingLinearUpToRounding ==
    ScaledByParts => \A f \in Macros : PartsGap(f) <= 1

\* A food whose parts are rounded away from their sum: the gap of 0.1 is
\* reached, with a part that lies halfway between two tenths.
C21_Witness ==
    /\ ScaledByParts
    /\ \E f \in Macros :
           /\ PartsGap(f) = 1
           /\ (foods[call.food][f] * call.w1) % 10 = 5

\* ------------------------------------------------------------------------
\* Claims on partial-match rejection
\* ------------------------------------------------------------------------

PartialMatchCalled == pc = "done" /\ call.op = "_is_partial_match"

\* The characters between words.
WordBreaks == {" ", "-", ",", "."}

\* The first occurrence of the query in the name (as str.find gives it,
\* counted from 1) begins a word and ends one.
begins_word(name, query) ==
    LET p == find(name, query) + 1 IN p = 1 \/ name[p - 1] \in WordBreaks

ends_word(name, query) ==
    LET q == find(name, query) + Len(query) IN q = Len(name) \/ name[q + 1] \in WordBreaks

off_word_boundary(name, query) ==
    contains(name, query) /\ ~(begins_word(name, query) /\ ends_word(name, query))

\* C22: a candidate name that contains the query as a substring that does
\* not both begin and end at a word boundary is rejected, wherever in the
\* name the occurrence lies.
C22_OffWordBoundaryRejected ==
    PartialMatchCalled /\ off_word_boundary(call.dish_name, call.query) => ret = TRUE

\* What the code does keep of C22: the rule holds for the names that do
\* not start with the query.
C22_OffWordBoundaryRejectedUnlessPrefix ==
    PartialMatchCalled /\ off_word_boundary(call.dish_name, call.query)
        /\ ~startswith(call.dish_name, call.query) => ret = TRUE

\* The words of the name that come on top of the query's.
is_word_prefix(name, query) ==
    /\ Len(split(query)) < Len(split(name))
    /\ SubSeq(split(name), 1, Len(split(query))) = split(query)

is_word_superset(name, query) ==
    /\ Range(split(query)) \subseteq Range(split(name))
    /\ Range(split(query)) # Range(split(name))

extra_words(name, query) ==
    IF is_word_prefix(name, query)
    THEN Range(SubSeq(split(name), Len(split(query)) + 1, Len(split(name))))
    ELSE Range(split(name)) \ Range(split(query))

\* Some extra word is a significant food word and no acceptable addition.
SignificantExtra(name, query) ==
    \E w \in extra_words(name, query) :
        w \in significant_food_words /\ w \notin acceptable_additions

QueryPlusExtraWords ==
    /\ PartialMatchCalled
    /\ is_word_prefix(call.dish_name, call.query) \/ is_word_superset(call.dish_name, call.query)

\* C23 as stated: a candidate that is the query followed by extra words,
\* or whose words are a superset of the query's, is rejected if and only
\* if some extra word is a significant food word and not an acceptable
\* addition.
C23_RejectedIffSignificantExtraWord ==
    QueryPlusExtraWords => (ret = TRUE <=> SignificantExtra(call.dish_name, call.query))

\* C23: the same, for the candidates in which the first occurrence of the
\* query is a whole word.
C23_RejectedIffSignificantExtraWordAtBoundary ==
    QueryPlusExtraWords /\ ~off_word_boundary(call.dish_name, call.query)
        => (ret = TRUE <=> SignificantExtra(call.dish_name, call.query))

\* "shawarma wrap" is kept for "shawarma" and "shawarma pizza" is not.
C23_ShawarmaExamples ==
    PartialMatchCalled /\ call.query = <<"s","h","a","w","a","r","m","a">> =>
        /\ call.dish_name \in {<<"s","h","a","w","a","r","m","a"," ","w","r","a","p">>, <<"s","h","a","w","a","r","m","a"," ","s","a","n","d","w","i","c","h">>,
                               <<"s","h","a","w","a","r","m","a"," ","p","l","a","t","e">>, <<"s","h","a","w","a","r","m","a"," ","s","a","l","a","d">>} => ret = FALSE
        /\ call.dish_name \in {<<"s","h","a","w","a","r","m","a"," ","p","i","z","z","a">>, <<"s","h","a","w","a","r","m","a"," ","b","u","r","g","e","r">>} => ret = TRUE

C23_Witness ==
    /\ PartialMatchCalled
    /\ call.query = <<"s","h","a","w","a","r","m","a">>
    /\ call.dish_name = <<"s","h","a","w","a","r","m","a"," ","p","i","z","z","a">>
    /\ ret = TRUE
    /\ \E i \in DOMAIN dishes : dishes[i].name = <<"s","h","a","w","a","r","m","a"," ","w","r","a","p">>

\* ------------------------------------------------------------------------
\* Properties of the spelling-variation table (under SpecSpelling)
\* ------------------------------------------------------------------------

\* The call looks up a key of the table in a store of the one dish named
\* by the key's canonical form.
VariantLookup ==
    /\ pc = "done" /\ call.op = "find_dish" /\ Len(dishes) = 1
    /\ \E i \in DOMAIN SPELLING_VARIATIONS :
          /\ SPELLING_VARIATIONS[i][1] = call.query
          /\ SPELLING_VARIATIONS[i][2] = normalized(dishes[1].name)

\* C5: for every key v of the spelling-variation table with canonical form
\* c, find_dish(v) against a store holding only a dish named c returns
\* that dish.
C5_VariantFindsCanonical == VariantLookup => ret.dish = 1

\* The keys of one word find their canonical dish (all keys but those of
\* the two-word canonical form).
C5_OneWordVariantFindsCanonical ==
    (VariantLookup /\ Len(split(normalized(dishes[1].name))) = 1) => ret.dish = 1

\* ------------------------------------------------------------------------
\* Claims on the choice among the candidates of a strategy
\* ------------------------------------------------------------------------

PrefixReturned == IngredientSearched /\ ret.step = "prefix"

ContainsReturned == IngredientSearched /\ ret.step = "contains"

description_lower(i) == lower(foods[i].description)

\* The description has none of the modifier words, nor salad or dressing.
Unmodified(i) ==
    \A w \in {<<"e","x","t","r","a">>, <<"l","i","g","h","t">>, <<"l","o","w">>, <<"r","e","d","u","c","e","d">>, <<"f","a","t","-","f","r","e","e">>, <<"s","a","l","a","d">>, <<"d","r","e","s","s","i","n","g">>} :
        ~contains(description_lower(i), w)

PenalisedForm(i) ==
    \E w \in {<<"j","u","i","c","e">>, <<"p","u","d","d","i","n","g">>, <<"p","i","e">>, <<"c","a","k","e">>, <<"b","a","b","y">>, <<"i","n","f","a","n","t">>} :
        contains(description_lower(i), w)

\* The score as stated: the "raw" bonus (20 for a query of one component,
\* 10 for more) less 50 for a penalised form.
StatedScore(i) ==
    100 + (IF ~contains(description_lower(i), <<"r","a","w">>) THEN 0
           ELSE IF Len(comma_parts(normalized(call.name))) > 1 THEN 10 ELSE 20)
        - (IF PenalisedForm(i) THEN 50 ELSE 0)

HighestStatedScore ==
    /\ ret.food \in ContainsFoods
    /\ \A i \in ContainsFoods :
           \/ StatedScore(ret.food) > StatedScore(i)
           \/ /\ StatedScore(ret.food) = StatedScore(i)
              /\ Len(foods[ret.food].description) <= Len(foods[i].description)
    /\ PenalisedForm(ret.food) => \A i \in ContainsFoods : PenalisedForm(i)

\* C25: whenever the contains strategy returns a food, for a query of one
\* component or of several, it is the candidate of the highest score (the
\* "raw" bonus, less 50 for juice, pudding, pie, cake, baby or infant),
\* the shortest among equals; a penalised form is never returned while an
\* unpenalised candidate exists.
C25_ContainsReturnsHighestScore ==
    ContainsReturned => HighestStatedScore

\* What the code does keep of C25: the queries of one component.
C25_OneComponentReturnsHighestScore ==
    ContainsReturned /\ Len(comma_parts(normalized(call.name))) = 1 => HighestStatedScore

\* ------------------------------------------------------------------------
\* Claims on the results of search_with_country_priority (under SpecDish)
\* ------------------------------------------------------------------------

PrioritySearched == pc = "done" /\ call.op \in {"search", "process_dish"}

\* The query text the search was given: _process_dish gives none.
query_text_of(c) == IF c.op = "search" THEN c.query ELSE None

VectorPhases == {"phase1", "phase2", "phase4", "phase5"}

ExactOrPrefixPhases == {"phase0", "phase3"}

\* C26: every dish search_with_country_priority returns from a vector
\* search has a similarity of at least max(threshold, min_confidence), for
\* the threshold 0.85 of the dish flow; and when no dish reaches it and
\* there is no exact or prefix match, no dish is returned.
C26_VectorResultReachesThreshold ==
    PrioritySearched =>
        /\ ret.phase \in VectorPhases
               => ret.similarity >= Max2(ProcessDishThreshold, MinConfidence)
        /\ (\A i \in DOMAIN dishes : call.sim[i] < Max2(ProcessDishThreshold, MinConfidence))
               => ret.phase \in ExactOrPrefixPhases \cup {"none"}

\* What the code does keep of C26: the floor of _vector_search.
C26_VectorResultReachesMinThreshold ==
    PrioritySearched /\ ret.phase \in VectorPhases
        => ret.similarity = call.sim[ret.dish] /\ ret.similarity >= MinThreshold

\* The phases in the user's country returned nothing.
UserCountryPhasesFailed ==
    /\ phase0(dishes, call.country, query_text_of(call)).dish = 0
    /\ vector_phase(dishes, call.sim, call.country, <<>>,
                    Max2(ProcessDishThreshold, MinConfidence), query_text_of(call),
                    0, TRUE, "phase1").dish = 0

\* C27: the flag of a result is true if and only if the country of the
\* returned dish is the user's, letter case apart; and a dish of another
\* country is returned only when the exact/prefix search and the vector
\* search in the user's country returned none.
C27_FlagTellsUserCountry ==
    PrioritySearched /\ ret.dish # 0 =>
        /\ ret.is_from_user_country <=> lower(dishes[ret.dish].country) = lower(call.country)
        /\ ~ret.is_from_user_country => UserCountryPhasesFailed

\* C27's case: a dish of another country was returned, by a search with
\* the query text, from a store that holds a dish of the user's country.
C27_Witness ==
    /\ PrioritySearched /\ call.op = "search"
    /\ ret.dish # 0 /\ ~ret.is_from_user_country
    /\ lower(dishes[ret.dish].country) # lower(call.country)
    /\ \E i \in DOMAIN dishes : lower(dishes[i].country) = lower(call.country)

\* ------------------------------------------------------------------------
\* Claims on the order of the modifications (under SpecApply)
\* ------------------------------------------------------------------------

\* Two modifications of the given actions on one ingredient name were
\* applied to a list that is not empty.
AppliedPair(first, second) ==
    /\ Applied
    /\ call.ingredients # <<>>
    /\ Len(call.modifications) = 2
    /\ call.modifications[1].action = first
    /\ call.modifications[2].action = second
    /\ call.modifications[1].ingredient # <<>>
    /\ call.modifications[1].ingredient = call.modifications[2].ingredient

\* The ingredient the resolver gives for the modification (an add) at
\* position k of the call.
resolved_add(k) ==
    search_and_calculate(foods,
        IngredientBase(call.modifications[k].ingredient,
                       IF call.modifications[k].new_weight_g = None THEN DefaultAddWeight
                       ELSE call.modifications[k].new_weight_g[1]),
        call.sim)

\* No ingredient of the list matches the name.
MatchesNothing(name, list) ==
    \A k \in DOMAIN list : ~ingredients_match(name, list[k].name)

\* The ingredients of the list that do not match the name, in their order.
without(list, name) == SelectSeq(list, LAMBDA ing : ~ingredients_match(name, ing.name))

AddThenRemove ==
    /\ AppliedPair("add", "remove")
    /\ resolved_add(1).food # 0
    /\ MatchesNothing(call.modifications[1].ingredient, call.ingredients)

RemoveThenAdd ==
    /\ AppliedPair("remove", "add")
    /\ resolved_add(2).food # 0
    /\ MatchesNothing(call.modifications[1].ingredient, call.ingredients)

RemoveThenAddGivesAppended ==
    RemoveThenAdd => ret = Append(call.ingredients, resolved_add(2).ingredient)

RemoveThenChangeGivesRemoved ==
    AppliedPair("remove", "change_quantity")
        => ret = without(call.ingredients, call.modifications[1].ingredient)

\* C28 as stated: for a resolvable name X that matches nothing in the
\* list L, [add X, remove X] gives L and [remove X, add X] gives L with X
\* appended; a change_quantity after a remove of the same name changes
\* nothing.
C28_OrderOfModifications ==
    /\ AddThenRemove => ret = call.ingredients
    /\ RemoveThenAddGivesAppended
    /\ RemoveThenChangeGivesRemoved

\* C28: the same, where [add X, remove X] gives L when the description of
\* the food X resolved to matches X, and L with that food appended when it
\* does not.
C28_OrderOfModificationsByResolvedName ==
    /\ AddThenRemove =>
           ret = IF ingredients_match(call.modifications[1].ingredient,
                                      resolved_add(1).ingredient.name)
                 THEN call.ingredients
                 ELSE Append(call.ingredients, resolved_add(1).ingredient)
    /\ RemoveThenAddGivesAppended
    /\ RemoveThenChangeGivesRemoved

\* C28's case: [add X, remove X] gave the list back although [remove X,
\* add X] would have appended the food.
C28_Witness ==
    /\ AddThenRemove
    /\ ret = call.ingredients
    /\ ingredients_match(call.modifications[1].ingredient, resolved_add(1).ingredient.name)

\* ------------------------------------------------------------------------
\* Claims on a modification applied twice (under SpecApply)
\* ------------------------------------------------------------------------

\* The same remove, or the same change_quantity to a positive weight, was
\* applied twice to a list of ingredients of positive weight.
AppliedTwice ==
    /\ Applied
    /\ call.ingredients # <<>>
    /\ \A k \in DOMAIN call.ingredients : call.ingredients[k].weight_g > 0
    /\ Len(call.modifications) = 2
    /\ call.modifications[1] = call.modifications[2]
    /\ call.modifications[1].ingredient # <<>>
    /\ \/ call.modifications[1].action = "remove"
       \/ /\ call.modifications[1].action = "change_quantity"
          /\ call.modifications[1].new_weight_g # None
          /\ call.modifications[1].new_weight_g[1] > 0

\* The list the modification gives when it is applied once.
applied_once ==
    apply_modifications(foods, call.sim, call.ingredients,
                        <<call.modifications[1]>>).result

\* The names and source ids of a list, in its order.
identities(list) == [k \in DOMAIN list |-> <<list[k].name, list[k].usda_fdc_id>>]

\* The ingredients kept are those of the list given, in their order, under
\* their names and source ids.
KeptAsTheyWere ==
    IF call.modifications[1].action = "remove"
    THEN identities(ret) = SelectSeq(identities(call.ingredients),
                                     LAMBDA p : p \in Range(identities(ret)))
    ELSE identities(ret) = identities(call.ingredients)

\* C29: on a list of ingredients of positive weight, a remove applied
\* twice gives the list it gives applied once, and so does a
\* change_quantity to a positive weight, weights and nutrients included;
\* neither changes the order, the names or the source ids of what it keeps.
C29_RemoveAndChangeAreIdempotent ==
    AppliedTwice => ret = applied_once /\ KeptAsTheyWere

\* C29's case: a change_quantity applied twice changed the weight of an
\* ingredient whose fat did not scale to a whole tenth.
C29_Witness ==
    /\ AppliedTwice
    /\ call.modifications[1].action = "change_quantity"
    /\ \E k \in DOMAIN ret :
           /\ ret[k].weight_g # call.ingredients[k].weight_g
           /\ ret[k].fat * call.ingredients[k].weight_g
                  # call.ingredients[k].fat * ret[k].weight_g

\* ------------------------------------------------------------------------
\* Claims on the registry of missing dishes (under SpecRegistry)
\* ------------------------------------------------------------------------

\* No registration is under way.
Quiescent == \A s \in Sessions : registry.sessions[s].pc = "closed"

\* The registrations made so far for the pair, letter case apart.
registrations(dish_name, country) ==
    Cardinality({k \in DOMAIN registry.registered :
        /\ lower(registry.registered[k][1]) = lower(dish_name)
        /\ lower(registry.registered[k][2]) = lower(country)})

\* At most one record per pair, and once the requests are over the record
\* of a pair counts the registrations made for it.
OneCountedRecordPerPair ==
    \A dish_name \in RegistryNames, country \in RegistryCountries :
        LET rows == matching_rows(registry.missing_dishes, dish_name, country)
        IN  /\ Cardinality(rows) <= 1
            /\ (Quiescent /\ registrations(dish_name, country) > 0) =>
                   \E i \in rows : registry.missing_dishes[i].query_count
                                       = registrations(dish_name, country)

\* C30: after any sequence and any interleaving of registrations by
\* concurrent chat requests, the registry holds at most one record per
\* (dish_name, country), letter case apart, and its query_count is the
\* number of registrations made for the pair.
C30_OneCountedRecordPerPair == OneCountedRecordPerPair

\* What the code does keep of C30: the registrations of requests that do
\* not overlap.
C30_OneCountedRecordWithoutOverlap == ~registry.overlapped => OneCountedRecordPerPair

====
